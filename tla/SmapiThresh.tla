----------------------------- MODULE SmapiThresh ----------------------------
(***************************************************************************)
(* The battery charge thresholds of src/tp_smapi/tp_smapi.c: every read    *)
(* and write is a SMAPI call, an SMI that the BIOS may refuse or ask to    *)
(* repeat, followed by a sleep of 50 ms.  A store of one threshold reads   *)
(* both and may move the other one, in up to six calls under smapi_mutex;  *)
(* shows, suspend and resume make their calls without it.                  *)
(*                                                                         *)
(* One battery is modelled: stores to the other one only hold the mutex.   *)
(* A step is one SMI, or what follows its sleep.                           *)
(***************************************************************************)
EXTENDS Integers

CONSTANTS
  Tasks,      \* processes that read and write the attributes
  PM,         \* the suspend and resume callbacks
  Nobody,     \* smapi_mutex is free
  bat,        \* the battery's number
  Requests,   \* the values written to the attributes
  InitialThresh,  \* what the thresholds may be when the driver is loaded
  BiosCodes,  \* the codes of smapi_retcode that calls may end with
  SMAPI_MAX_RETRIES

Procs == Tasks \cup {PM}

MIN_THRESH_DELTA == 4
MIN_THRESH_START == 2
MAX_THRESH_START == 100 - MIN_THRESH_DELTA
MIN_THRESH_STOP == MIN_THRESH_START + MIN_THRESH_DELTA
MAX_THRESH_STOP == 100
BATMAX_FIX == 1

\* The codes and errors of smapi_retcode, whose entry for "System is busy"
\* has its -EBUSY inside the text and so returns 0.
smapi_retcode ==
  [c0x00 |-> "ok", c0x53 |-> "ENXIO", c0x81 |-> "EINVAL",
   c0x86 |-> "EOPNOTSUPP", c0x90 |-> "EIO", c0x91 |-> "EIO", c0x92 |-> "ok",
   c0xa0 |-> "EIO", c0xa1 |-> "EBUSY", c0xa2 |-> "ENXIO", c0xa3 |-> "EIO",
   c0xa4 |-> "EINVAL", c0xa5 |-> "EINVAL", c0xa6 |-> "EBUSY", EOF |-> "EIO"]

NoSuchThresh == {"EOPNOTSUPP", "ENXIO"}

ASSUME ProcsAssumption == PM \notin Tasks /\ Nobody \notin Procs

(***************************************************************************)
(* A threshold either exists, and no call on it says that the function     *)
(* does not, or it does not exist, and every call says so.  A battery that *)
(* is taken out may answer 0xa2 at any time.                               *)
(***************************************************************************)
ASSUME BiosAssumption ==
  /\ bat \in {0, 1}
  /\ Requests \subseteq 1 .. 100
  /\ InitialThresh \subseteq 0 .. 99
  /\ BiosCodes \subseteq DOMAIN smapi_retcode \ {"c0x53", "c0x86"}
  /\ SMAPI_MAX_RETRIES \in Nat \ {0}

Which == {"STOP", "START"}
Other(w) == IF w = "STOP" THEN "START" ELSE "STOP"

VARIABLES
  hw,       \* the real thresholds in the hardware, 0 for the default
  missing,  \* the thresholds this machine does not have
  mutex,    \* holder of smapi_mutex
  pc,       \* the call each process is about to make
  which,    \* the threshold it was asked for
  thresh,   \* the value to store
  other,    \* other_thresh
  tries,    \* retries in smapi_request
  code,     \* AH after an SMI, until the sleep is over; else "none"
  ecx,      \* the value in ECX, or Unset without the bit 0x0100
  ret,      \* the last error
  saved,    \* saved_threshs
  before,   \* history: the thresholds when the system was suspended
  failed    \* history: those with a failed call since then

callVars == <<tries, code, ecx>>
pmVars == <<saved, before, failed>>
vars == <<hw, missing, mutex, pc, which, thresh, other, tries, code, ecx, ret,
          saved, before, failed>>

Unset == -1
GetCalls == {"show", "get_other", "get_this", "verify_other", "verify_this",
             "save", "verify_saved"}
SetCalls == {"set_other", "set_this", "restore"}
StoreCalls == {"get_other", "get_this", "verify_other", "set_other",
               "verify_this", "set_this"}

Init ==
  /\ hw \in [Which -> InitialThresh]
  /\ missing \in {{}, {"STOP"}, {"START"}}
  /\ mutex = Nobody
  /\ pc = [p \in Procs |-> "out"]
  /\ which = [p \in Procs |-> "STOP"]
  /\ thresh = [p \in Procs |-> 0]
  /\ other = [p \in Procs |-> 0]
  /\ tries = [p \in Procs |-> 0]
  /\ code = [p \in Procs |-> "none"]
  /\ ecx = [p \in Procs |-> Unset]
  /\ ret = [p \in Procs |-> "ok"]
  /\ saved = [w \in Which |-> -1]
  /\ before = [w \in Which |-> 0]
  /\ failed = {}

-----------------------------------------------------------------------------
(* Thresholds as the user sees them.                                       *)

\* get_thresh
Shown(w, real) ==
  IF real = 0 THEN IF w = "START" THEN MAX_THRESH_START ELSE MAX_THRESH_STOP
  ELSE IF w = "START" THEN real + BATMAX_FIX ELSE real

\* set_thresh
Real(w, shown) ==
  IF w = "START" THEN shown - BATMAX_FIX
  ELSE IF shown = MAX_THRESH_STOP THEN 0 ELSE shown

\* Mutant: the requested value is not clamped.
ClampNothing(w, v) == v

\* The clamping in the two store functions.
Clamp(w, v) ==
  IF w = "START"
  THEN IF v < MIN_THRESH_START THEN MIN_THRESH_START
       ELSE IF v > MAX_THRESH_START THEN MAX_THRESH_START ELSE v
  ELSE IF v < MIN_THRESH_STOP THEN MIN_THRESH_STOP ELSE v

\* Mutant: the thresholds may touch.
TouchingIsFine(w, v, o) ==
  IF w = "START" THEN o < v ELSE o >= v

\* Must threshold w going to v move the other one, at o?
TooClose(w, v, o) ==
  IF w = "START" THEN o < v + MIN_THRESH_DELTA ELSE o >= v - MIN_THRESH_DELTA

\* ... and where to.
MovedTo(w, v) ==
  IF w = "START" THEN v + MIN_THRESH_DELTA ELSE v - MIN_THRESH_DELTA

-----------------------------------------------------------------------------
(* smapi_request.                                                          *)

\* The threshold a process's call is about, and the value it writes.
Target(p) ==
  IF pc[p] \in {"get_other", "verify_other", "set_other"}
  THEN Other(which[p]) ELSE which[p]

Written(p) ==
  CASE pc[p] = "set_other" -> Real(Other(which[p]), MovedTo(which[p], thresh[p]))
    [] pc[p] = "set_this"  -> Real(which[p], thresh[p])
    [] pc[p] = "restore"   -> saved[which[p]]

Outcomes(w) == IF w \in missing THEN {"c0x86", "c0x53"} ELSE BiosCodes

\* Only get_thresh and tp_suspend look at the value, not just at its bit.
Taken(p, v) == IF v = Unset \/ pc[p] \in {"get_other", "save"} THEN v ELSE 0

\* The SMI, under the EC semaphore.  A call that fails leaves the registers
\* alone; one that reads may come back without the bit 0x0100.
SMI(p) ==
  /\ pc[p] \in GetCalls \cup SetCalls /\ code[p] = "none"
  /\ \E c \in Outcomes(Target(p)) :
       /\ code' = [code EXCEPT ![p] = c]
       /\ \/ /\ pc[p] \in GetCalls /\ c = "c0x00"
             /\ \E v \in {hw[Target(p)], Unset} :
                  ecx' = [ecx EXCEPT ![p] = Taken(p, v)]
             /\ UNCHANGED hw
          \/ /\ pc[p] \in GetCalls /\ c # "c0x00"
             /\ ecx' = [ecx EXCEPT ![p] = IF bat = 0 THEN 0 ELSE Unset]
             /\ UNCHANGED hw
          \/ /\ pc[p] \in SetCalls
             /\ hw' = IF c = "c0x00" THEN [hw EXCEPT ![Target(p)] = Written(p)]
                      ELSE hw
             /\ UNCHANGED ecx
  /\ UNCHANGED <<missing, mutex, pc, which, thresh, other, tries, ret, pmVars>>

\* Where a store goes after a call that succeeded, and after one that did not.
StoreContinues(p, r) ==
  /\ pc' = [pc EXCEPT ![p] =
       IF pc[p] = "get_other" /\ r \in NoSuchThresh THEN "verify_this"
       ELSE IF r # "ok" \/ pc[p] = "set_this" THEN "unlock"
       ELSE CASE pc[p] = "get_other" -> "get_this"
              [] pc[p] = "get_this" ->
                   IF TooClose(which[p], thresh[p], other[p])
                   THEN "verify_other" ELSE "verify_this"
              [] pc[p] = "verify_other" -> "set_other"
              [] pc[p] = "set_other" -> "verify_this"
              [] pc[p] = "verify_this" -> "set_this"]
  /\ other' = [other EXCEPT ![p] =
       IF pc[p] = "get_other" /\ r = "ok" THEN Shown(Other(which[p]), ecx[p])
       ELSE @]
  /\ UNCHANGED <<mutex, which, thresh, pmVars>>

ShowReturns(p) ==
  /\ pc' = [pc EXCEPT ![p] = "out"]
  /\ which' = [which EXCEPT ![p] = "STOP"]
  /\ UNCHANGED <<mutex, thresh, other, pmVars>>

\* tp_suspend saves STOP, then START; so does tp_resume restore them.
NextThresh(p, again, end) ==
  /\ pc' = [pc EXCEPT ![p] = IF which[p] = "STOP" THEN again ELSE end]
  /\ which' = [which EXCEPT ![p] = IF which[p] = "STOP" THEN "START" ELSE "STOP"]

Saves(p, r) ==
  /\ NextThresh(p, "save", "hibernated")
  /\ saved' = [saved EXCEPT ![which[p]] = IF r = "ok" THEN ecx[p] ELSE -1]
  /\ failed' = IF r = "ok" THEN failed ELSE failed \cup {which[p]}
  /\ UNCHANGED <<mutex, thresh, other, before>>

Restores(p, r) ==
  /\ \/ /\ pc[p] = "verify_saved" /\ r = "ok"
        /\ pc' = [pc EXCEPT ![p] = "restore"]
        /\ UNCHANGED which
     \/ /\ pc[p] = "restore" \/ r # "ok"
        /\ NextThresh(p, "resume", "awake")
  /\ failed' = IF r = "ok" THEN failed ELSE failed \cup {which[p]}
  /\ UNCHANGED <<mutex, thresh, other, saved, before>>

\* smapi_request returns r to whoever called it.
Returns(p, r) ==
  /\ ret' = [ret EXCEPT ![p] = IF pc[p] \in StoreCalls THEN r ELSE "ok"]
  /\ tries' = [tries EXCEPT ![p] = 0]
  /\ ecx' = [ecx EXCEPT ![p] = Unset]
  /\ \/ pc[p] = "show" /\ ShowReturns(p)
     \/ pc[p] = "save" /\ Saves(p, r)
     \/ pc[p] \in {"verify_saved", "restore"} /\ Restores(p, r)
     \/ pc[p] \in StoreCalls /\ StoreContinues(p, r)

\* thinkpad_ec_lock was interrupted.
Interrupted(p) ==
  /\ pc[p] \in GetCalls \cup SetCalls /\ code[p] = "none"
  /\ Returns(p, "EINTR")
  /\ UNCHANGED <<hw, missing, code>>

\* msleep(50) is over: look up the code, retry or return.
Wake(p) ==
  LET r == smapi_retcode[code[p]] IN
  /\ code[p] # "none"
  /\ code' = [code EXCEPT ![p] = "none"]
  /\ \/ /\ r = "EBUSY" /\ tries[p] + 1 < SMAPI_MAX_RETRIES
        /\ tries' = [tries EXCEPT ![p] = @ + 1]
        /\ UNCHANGED <<mutex, pc, which, thresh, other, ecx, ret, pmVars>>
     \/ /\ r # "EBUSY" \/ tries[p] + 1 >= SMAPI_MAX_RETRIES
        /\ Returns(p, IF r = "ok" /\ pc[p] \in GetCalls /\ ecx[p] = Unset
                      THEN "EIO" ELSE r)
  /\ UNCHANGED <<hw, missing>>

-----------------------------------------------------------------------------
(* The attributes.                                                         *)

Awake == pc[PM] = "out"

Show(t, w) ==
  /\ Awake /\ pc[t] = "out"
  /\ pc' = [pc EXCEPT ![t] = "show"]
  /\ which' = [which EXCEPT ![t] = w]
  /\ UNCHANGED <<hw, missing, mutex, thresh, other, callVars, ret, pmVars>>

Store(t, w, v) ==
  /\ Awake /\ pc[t] = "out"
  /\ pc' = [pc EXCEPT ![t] = "down"]
  /\ which' = [which EXCEPT ![t] = w]
  /\ thresh' = [thresh EXCEPT ![t] = Clamp(w, v)]
  /\ UNCHANGED <<hw, missing, mutex, other, callVars, ret, pmVars>>

\* Mutant: the stores do not exclude each other.
LockNothing(t) ==
  /\ pc[t] = "down"
  /\ mutex' = t
  /\ pc' = [pc EXCEPT ![t] = "get_other"]
  /\ UNCHANGED <<hw, missing, which, thresh, other, callVars, ret, pmVars>>

\* down(&smapi_mutex)
Lock(t) ==
  /\ pc[t] = "down" /\ mutex = Nobody
  /\ mutex' = t
  /\ pc' = [pc EXCEPT ![t] = "get_other"]
  /\ UNCHANGED <<hw, missing, which, thresh, other, callVars, ret, pmVars>>

\* A process that leaves the driver has no local variables.
Forgets(t) ==
  /\ which' = [which EXCEPT ![t] = "STOP"]
  /\ thresh' = [thresh EXCEPT ![t] = 0]
  /\ other' = [other EXCEPT ![t] = 0]
  /\ ret' = [ret EXCEPT ![t] = "ok"]

\* Mutant: an error returns past up().
UnlockOnSuccess(t) ==
  /\ pc[t] = "unlock"
  /\ mutex' = IF ret[t] = "ok" THEN Nobody ELSE mutex
  /\ pc' = [pc EXCEPT ![t] = "out"]
  /\ Forgets(t)
  /\ UNCHANGED <<hw, missing, callVars, pmVars>>

\* up(&smapi_mutex), and the store reports success whatever ret is.
Unlock(t) ==
  /\ pc[t] = "unlock"
  /\ mutex' = Nobody
  /\ pc' = [pc EXCEPT ![t] = "out"]
  /\ Forgets(t)
  /\ UNCHANGED <<hw, missing, callVars, pmVars>>

-----------------------------------------------------------------------------
(* Suspend and resume, with every task outside the driver.                 *)

\* tp_suspend: only a suspend to disk saves the thresholds.
Suspend(disk) ==
  /\ \A p \in Procs : pc[p] = "out"
  /\ pc' = [pc EXCEPT ![PM] = IF disk THEN "save" ELSE "asleep"]
  /\ which' = [which EXCEPT ![PM] = "STOP"]
  /\ saved' = [w \in Which |-> -1]
  /\ before' = hw
  /\ failed' = {}
  /\ UNCHANGED <<hw, missing, mutex, thresh, other, callVars, ret>>

\* The EC forgets the thresholds when a system suspended to disk is
\* unplugged from AC and battery.
Unplug ==
  /\ pc[PM] = "hibernated"
  /\ hw' = [w \in Which |-> 0]
  /\ failed' = failed \cup {w \in Which : saved[w] = -1}
  /\ UNCHANGED <<missing, mutex, pc, which, thresh, other, callVars, ret, saved,
                 before>>

Resume ==
  /\ pc[PM] \in {"asleep", "hibernated"}
  /\ pc' = [pc EXCEPT ![PM] = "resume"]
  /\ which' = [which EXCEPT ![PM] = "STOP"]
  /\ UNCHANGED <<hw, missing, mutex, thresh, other, callVars, ret, pmVars>>

\* Mutant: tp_resume restores START only when STOP was known.
ResumeStopsAtUnknown ==
  /\ pc[PM] = "resume"
  /\ \/ /\ saved["STOP"] >= 0 /\ saved[which[PM]] >= 0
        /\ pc' = [pc EXCEPT ![PM] = "verify_saved"]
        /\ UNCHANGED which
     \/ /\ saved["STOP"] < 0 \/ saved[which[PM]] < 0
        /\ NextThresh(PM, "resume", "awake")
  /\ UNCHANGED <<hw, missing, mutex, thresh, other, callVars, ret, pmVars>>

\* tp_resume: a threshold that was saved is restored.
ResumeThresh ==
  /\ pc[PM] = "resume"
  /\ \/ /\ saved[which[PM]] >= 0
        /\ pc' = [pc EXCEPT ![PM] = "verify_saved"]
        /\ UNCHANGED which
     \/ /\ saved[which[PM]] < 0
        /\ NextThresh(PM, "resume", "awake")
  /\ UNCHANGED <<hw, missing, mutex, thresh, other, callVars, ret, pmVars>>

\* The tasks are thawed.  What was saved is not used again: tp_suspend sets
\* all of it first.
Thaw ==
  /\ pc[PM] = "awake"
  /\ pc' = [pc EXCEPT ![PM] = "out"]
  /\ saved' = [w \in Which |-> -1]
  /\ before' = [w \in Which |-> 0]
  /\ failed' = {}
  /\ UNCHANGED <<hw, missing, mutex, which, thresh, other, callVars, ret>>

-----------------------------------------------------------------------------

Step(p) == SMI(p) \/ Interrupted(p) \/ Wake(p)

Next ==
  \/ \E p \in Procs : Step(p)
  \/ \E t \in Tasks :
       \/ \E w \in Which : Show(t, w) \/ \E v \in Requests : Store(t, w, v)
       \/ Lock(t) \/ Unlock(t)
  \/ \E disk \in BOOLEAN : Suspend(disk)
  \/ Unplug \/ Resume \/ ResumeThresh \/ Thaw

Spec == Init /\ [][Next]_vars

\* A call that was made goes on; semaphores are granted in turn.
Fairness ==
  \A t \in Tasks : WF_vars(Step(t)) /\ WF_vars(Unlock(t)) /\ SF_vars(Lock(t))

FairSpec == Spec /\ Fairness

-----------------------------------------------------------------------------

TypeOK ==
  /\ hw \in [Which -> 0 .. 99]
  /\ missing \subseteq Which
  /\ mutex \in Tasks \cup {Nobody}
  /\ pc \in [Procs -> {"out", "down", "unlock", "asleep", "hibernated", "resume",
                         "awake"}
                        \cup GetCalls \cup SetCalls]
  /\ which \in [Procs -> Which]
  /\ thresh \in [Procs -> 0 .. 100]
  /\ other \in [Procs -> 0 .. 100]
  /\ tries \in [Procs -> 0 .. SMAPI_MAX_RETRIES - 1]
  /\ code \in [Procs -> {"none"} \cup DOMAIN smapi_retcode]
  /\ ecx \in [Procs -> -1 .. 99]
  /\ ret \in [Procs -> {"ok", "EINTR", "ENXIO", "EINVAL", "EOPNOTSUPP", "EIO",
                        "EBUSY"}]
  /\ saved \in [Which -> -1 .. 99]
  /\ before \in [Which -> 0 .. 99]
  /\ failed \subseteq Which

\* "a valid state for the hardware", on a machine that has both thresholds
Valid ==
  missing = {} => Shown("START", hw["START"]) + MIN_THRESH_DELTA
                    <= Shown("STOP", hw["STOP"])

(***************************************************************************)
(* A store that met no error leaves thresholds MIN_THRESH_DELTA apart,     *)
(* whatever state an earlier, failed resume or store left them in.         *)
(***************************************************************************)
StoreEndsValid ==
  \A t \in Tasks : pc[t] = "unlock" /\ ret[t] = "ok" => Valid

(***************************************************************************)
(* Two stores at a time, failing at any of their calls, never make a valid *)
(* pair invalid, not even between the write of one threshold and of the    *)
(* other.                                                                  *)
(***************************************************************************)
StoresKeepValid == [][Awake /\ Valid => Valid']_vars

(***************************************************************************)
(* A threshold no call failed on has, after a resume, the value it had     *)
(* when the system was suspended, also when the EC has forgotten it.       *)
(***************************************************************************)
ResumeRestores ==
  pc[PM] = "awake" => \A w \in Which \ failed : hw[w] = before[w]

(***************************************************************************)
(* Every store ends: with all retries used, in its turn on the mutex, and  *)
(* whichever of its calls fails.                                           *)
(***************************************************************************)
StoresEnd == \A t \in Tasks : pc[t] = "down" ~> pc[t] = "out"

=============================================================================
