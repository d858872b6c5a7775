----------------------------- MODULE BootControl ----------------------------
(***************************************************************************)
(* The A/B slot switch of src/bootctrl: the boot control HAL records the   *)
(* active slot twice, in the misc partition through libboot_control and,   *)
(* because GRUB does not read misc, in /grub/android.cfg, which            *)
(* SetGrubBootSlot edits in place.  GRUB boots what android.cfg names.     *)
(*                                                                         *)
(* The HAL serves one call at a time; it may die, and the machine may be   *)
(* rebooted or lose power, between any two steps of it.  What              *)
(* SetGrubBootSlot writes is in the page cache, as nothing syncs it: the   *)
(* kernel brings it to the disk later, and a loss of power may come first. *)
(* misc is taken to be written in sync.                                    *)
(***************************************************************************)
EXTENDS FiniteSets

CONSTANTS
  Slots,  \* the slots
  Empty   \* android.cfg truncated to nothing, and no slot

ASSUME SlotsAssumption == Empty \notin Slots

VARIABLES
  up,          \* Android runs
  booted,      \* ro.boot.slot_suffix, and libboot_control's current slot
  cfg,         \* the slot that kernel, initrd and slot_suffix have in android.cfg
  onDisk,      \* what a loss of power may leave of that
  active,      \* misc: the slot last made active
  successful,  \* misc: slots with successful_boot
  unbootable,  \* misc: slots with priority 0
  pc,          \* where setActiveBootSlot is
  slot,        \* its argument
  content,     \* what it has read and edited
  result,      \* what it reported
  called,      \* history: android.cfg when it was called
  emptied,     \* history: since the machine is up a write found no room,
               \* or was never reached, after the file was truncated
  switched     \* history: the slot of the last call, a first switch with success

fileVars == <<cfg, onDisk>>
histVars == <<emptied, switched>>
miscVars == <<active, successful, unbootable>>
callVars == <<slot, content, result, called>>
vars == <<up, booted, cfg, onDisk, active, successful, unbootable, pc, slot,
          content, result, called, emptied, switched>>

Init ==
  /\ up = TRUE
  /\ booted \in Slots
  /\ cfg = booted /\ onDisk = {booted}
  /\ active = booted
  /\ successful = {} /\ unbootable = {}
  /\ pc = "idle"
  /\ slot = booted /\ content = Empty /\ result = "none" /\ called = Empty
  /\ emptied = FALSE /\ switched = Empty

-----------------------------------------------------------------------------
(* setActiveBootSlot.                                                      *)

Report(r) ==
  /\ pc' = "idle"
  /\ result' = r
  /\ content' = Empty

\* impl_.SetActiveBootSlot: misc is saved, or the call fails at once.
SetActiveBootSlot(s) ==
  /\ up /\ pc = "idle"
  /\ slot' = s
  /\ called' = cfg
  /\ \/ /\ active' = s
        /\ unbootable' = unbootable \ {s}
        /\ pc' = "read"
        /\ result' = "none"
        /\ switched' = Empty
        /\ UNCHANGED <<content, successful>>
     \/ Report("Operation failed") /\ UNCHANGED <<miscVars, switched>>
  /\ UNCHANGED <<up, booted, fileVars, emptied>>

\* Mutant: old and new slot are swapped.
FindAndReplaceSwapped(text, old, new) == IF text = new THEN old ELSE text

\* findAndReplace for one of the texts: the name of the old slot becomes the
\* new one's, any other text stays.
FindAndReplace(text, old, new) == IF text = old THEN new ELSE text

\* SetGrubBootSlot reads the file and edits what it read.  The old suffix is
\* that of the running system.
ReadCfg ==
  /\ up /\ pc = "read"
  /\ \/ /\ content' = FindAndReplace(cfg, booted, slot)
        /\ pc' = "open"
        /\ UNCHANGED result
     \/ Report("Operation failed")
  /\ UNCHANGED <<up, booted, fileVars, miscVars, slot, called, histVars>>

\* Mutant: the file is truncated although the call reports that it failed.
OpenCfgAnyway ==
  /\ up /\ pc = "open"
  /\ cfg' = Empty /\ onDisk' = onDisk \cup {Empty}
  /\ \/ pc' = "write" /\ UNCHANGED <<result, content>>
     \/ Report("Operation failed")
  /\ UNCHANGED <<up, booted, miscVars, slot, called, histVars>>

\* std::ofstream truncates the file when it opens it.
OpenCfg ==
  /\ up /\ pc = "open"
  /\ \/ /\ cfg' = Empty /\ onDisk' = onDisk \cup {Empty}
        /\ pc' = "write"
        /\ UNCHANGED <<result, content>>
     \/ Report("Operation failed") /\ UNCHANGED fileVars
  /\ UNCHANGED <<up, booted, miscVars, slot, called, histVars>>

\* Mutant: the edited text is never written back.
WriteNothing ==
  /\ up /\ pc = "write"
  /\ Report("Success")
  /\ UNCHANGED <<up, booted, fileVars, miscVars, slot, called, histVars>>

\* Nobody looks whether the write succeeded, and nothing waits for the disk.
\* The text is shorter than a block: it is written as a whole or not at all.
WriteCfg ==
  /\ up /\ pc = "write"
  /\ \/ /\ cfg' = content /\ onDisk' = onDisk \cup {content}
        /\ switched' = IF called = booted THEN slot ELSE Empty
        /\ UNCHANGED emptied
     \/ emptied' = TRUE /\ UNCHANGED <<fileVars, switched>>
  /\ Report("Success")
  /\ UNCHANGED <<up, booted, miscVars, slot, called>>

-----------------------------------------------------------------------------
(* The other calls, which only reach misc; any of them may fail.           *)

MarkBootSuccessful ==
  /\ up /\ pc = "idle"
  /\ successful' = successful \cup {booted}
  /\ UNCHANGED <<up, booted, fileVars, active, unbootable, pc, callVars, histVars>>

SetSlotAsUnbootable(s) ==
  /\ up /\ pc = "idle"
  /\ unbootable' = unbootable \cup {s}
  /\ successful' = successful \ {s}
  /\ UNCHANGED <<up, booted, fileVars, active, pc, callVars, histVars>>

-----------------------------------------------------------------------------

\* The kernel has written back what the page cache had.
WriteBack ==
  /\ up /\ onDisk # {cfg}
  /\ onDisk' = {cfg}
  /\ UNCHANGED <<up, booted, cfg, miscVars, pc, callVars, histVars>>

\* The HAL dies in a call, and init starts it again.
HalDies ==
  /\ up /\ pc # "idle"
  /\ pc' = "idle"
  /\ content' = Empty /\ called' = Empty
  /\ emptied' = (emptied \/ pc = "write")
  /\ UNCHANGED <<up, booted, fileVars, miscVars, slot, result, switched>>

\* The machine stops, at any time, with cfg' on its disk.
GoDown ==
  /\ up /\ up' = FALSE
  /\ onDisk' = {cfg'}
  /\ pc' = "idle"
  /\ content' = Empty /\ result' = "none" /\ called' = Empty
  /\ emptied' = FALSE
  /\ UNCHANGED <<booted, miscVars, slot>>

\* A shutdown stops the HAL wherever it is, and syncs.
Reboot == UNCHANGED <<cfg, switched>> /\ GoDown

\* The disk has one of the contents since the last write-back.
LosePower ==
  /\ cfg' \in onDisk
  /\ switched' = IF onDisk = {cfg} THEN switched ELSE Empty
  /\ GoDown

\* Mutant: GRUB goes on with a configuration that names nothing.
BootAnything ==
  /\ ~up
  /\ up' = TRUE
  /\ booted' = cfg
  /\ slot' = cfg
  /\ UNCHANGED <<fileVars, miscVars, pc, content, result, called, histVars>>

\* GRUB boots what its configuration names, whatever misc says.
Boot ==
  /\ ~up /\ cfg # Empty
  /\ up' = TRUE
  /\ booted' = cfg
  /\ slot' = cfg
  /\ UNCHANGED <<fileVars, miscVars, pc, content, result, called, histVars>>

Next ==
  \/ \E s \in Slots : SetActiveBootSlot(s) \/ SetSlotAsUnbootable(s)
  \/ ReadCfg \/ OpenCfg \/ WriteCfg
  \/ MarkBootSuccessful
  \/ HalDies \/ WriteBack \/ Reboot \/ LosePower \/ Boot

Spec == Init /\ [][Next]_vars

-----------------------------------------------------------------------------

TypeOK ==
  /\ up \in BOOLEAN
  /\ booted \in Slots
  /\ cfg \in Slots \cup {Empty} /\ onDisk \subseteq Slots \cup {Empty}
  /\ active \in Slots
  /\ successful \subseteq Slots /\ unbootable \subseteq Slots
  /\ pc \in {"idle", "read", "open", "write"}
  /\ slot \in Slots
  /\ content \in Slots \cup {Empty}
  /\ result \in {"none", "Success", "Operation failed"}
  /\ called \in Slots \cup {Empty}
  /\ emptied \in BOOLEAN /\ switched \in Slots \cup {Empty}

(***************************************************************************)
(* "Success": after setActiveBootSlot has reported it, and there was room  *)
(* for the file, the next boot is into the slot that was asked for, which  *)
(* misc records as active.                                                 *)
(***************************************************************************)
ReportedSlotBoots == result = "Success" /\ ~emptied => cfg = slot /\ active = slot

\* A call that found android.cfg with the running slot, and room for it.
SwitchTakes ==
  result = "Success" /\ called = booted /\ ~emptied => cfg = slot /\ active = slot

\* ... until another call gets as far as misc, or a loss of power comes
\* before the kernel has written the file back.
SwitchLasts == switched # Empty => cfg = switched /\ active = switched

(***************************************************************************)
(* The first switch after a boot that reports success, and has room,       *)
(* decides what GRUB boots, and misc agrees, whatever failed or was cut    *)
(* off before that boot; and so it stays, over reboots, over losses of     *)
(* power once the file has reached the disk, and over calls that fail      *)
(* before they change misc.                                                *)
(***************************************************************************)
FirstSwitchBoots == SwitchTakes /\ SwitchLasts

(***************************************************************************)
(* A call that reports failure has not touched what GRUB boots, though     *)
(* misc may have been changed.                                             *)
(***************************************************************************)
FailureKeepsCfg == result = "Operation failed" => cfg = called

(***************************************************************************)
(* A machine goes down with nothing to boot in three ways only: stopped    *)
(* between the truncation of android.cfg and the write; at any time after  *)
(* a write that found no room, or that the HAL died before; or by a loss   *)
(* of power after a write that had not reached the disk, of which the      *)
(* truncation had.                                                         *)
(***************************************************************************)
StaysBootable ==
  [][up /\ ~up' /\ cfg' = Empty =>
       \/ pc = "write"
       \/ emptied
       \/ cfg # Empty /\ onDisk # {cfg}]_vars

=============================================================================
