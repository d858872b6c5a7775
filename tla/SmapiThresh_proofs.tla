-------------------------- MODULE SmapiThresh_proofs ------------------------
(***************************************************************************)
(* Proofs about SmapiThresh, for any number of tasks, requests, retries    *)
(* and codes of the BIOS.                                                  *)
(***************************************************************************)
EXTENDS SmapiThresh, TLAPS

Calls == GetCalls \cup SetCalls
Errors == {"EINTR", "ENXIO", "EINVAL", "EOPNOTSUPP", "EIO", "EBUSY"}

\* The values that the stores write, as the user sees them.
ThreshRange(w) ==
  IF w = "START" THEN MIN_THRESH_START .. MAX_THRESH_START
  ELSE MIN_THRESH_STOP .. MAX_THRESH_STOP

\* Threshold w at v and the other one at o are a valid pair.
Apart(w, v, o) ==
  IF w = "START" THEN v + MIN_THRESH_DELTA <= o ELSE o + MIN_THRESH_DELTA <= v

-----------------------------------------------------------------------------
(* The conversions and the arithmetic of the stores.                       *)

LEMMA RetTypes ==
  \A c \in DOMAIN smapi_retcode :
    /\ smapi_retcode[c] \in {"ok"} \cup Errors
    /\ smapi_retcode[c] = "ok" => c \in {"c0x00", "c0x92"}
  BY DEF smapi_retcode, Errors

\* What set_thresh writes, get_thresh shows again.
LEMMA ShownReal ==
  \A w \in Which : \A v \in ThreshRange(w) :
    Real(w, v) \in 0 .. 99 /\ Shown(w, Real(w, v)) = v
  BY DEF Which, ThreshRange, Real, Shown, MIN_THRESH_START, MAX_THRESH_START,
         MIN_THRESH_STOP, MAX_THRESH_STOP, MIN_THRESH_DELTA, BATMAX_FIX

LEMMA ShownType == \A w \in Which : \A v \in 0 .. 99 : Shown(w, v) \in 0 .. 100
  BY DEF Which, Shown, MAX_THRESH_START, MAX_THRESH_STOP, MIN_THRESH_DELTA,
         BATMAX_FIX

LEMMA ClampRange ==
  \A w \in Which : \A v \in 1 .. 100 : Clamp(w, v) \in ThreshRange(w)
  BY DEF Which, ThreshRange, Clamp, MIN_THRESH_START, MAX_THRESH_START,
         MIN_THRESH_STOP, MAX_THRESH_STOP, MIN_THRESH_DELTA

LEMMA OtherType == \A w \in Which : Other(w) \in Which /\ Other(w) # w /\ Other(Other(w)) = w
  BY DEF Which, Other

\* Where the other threshold is moved it is in range, and valid with this one.
LEMMA MovedApart ==
  \A w \in Which : \A v \in ThreshRange(w) :
    MovedTo(w, v) \in ThreshRange(Other(w)) /\ Apart(w, v, MovedTo(w, v))
  BY DEF Which, Other, ThreshRange, MovedTo, Apart, MIN_THRESH_START,
         MAX_THRESH_START, MIN_THRESH_STOP, MAX_THRESH_STOP, MIN_THRESH_DELTA

\* If it need not be moved it is valid with the new value ...
LEMMA NotTooClose ==
  \A w \in Which : \A v, o \in 0 .. 100 : ~TooClose(w, v, o) => Apart(w, v, o)
  BY DEF Which, TooClose, Apart, MIN_THRESH_DELTA

\* ... and if it is moved, a pair that was valid is not made invalid: the
\* other threshold moves away from the old value.
LEMMA MovesAway ==
  \A w \in Which : \A v, a, o \in 0 .. 100 :
    TooClose(w, v, o) /\ Apart(w, a, o) => Apart(w, a, MovedTo(w, v))
  BY DEF Which, TooClose, Apart, MovedTo, MIN_THRESH_DELTA

LEMMA ValidApart ==
  \A w \in Which :
    Valid <=> (missing = {} => Apart(w, Shown(w, hw[w]), Shown(Other(w), hw[Other(w)])))
  BY DEF Which, Other, Apart, Valid

-----------------------------------------------------------------------------
(* Types, and who can be where.                                            *)

PMPlaces == {"out", "save", "asleep", "hibernated", "resume", "verify_saved",
             "restore", "awake"}

\* A store is past down() exactly while it holds smapi_mutex; while the system
\* is not awake no task is in the driver.
RoleInv ==
  /\ \A t \in Tasks : pc[t] \in {"out", "down", "show", "unlock"} \cup StoreCalls
  /\ pc[PM] \in PMPlaces
  /\ \A t \in Tasks : pc[t] \in StoreCalls \cup {"unlock"} <=> mutex = t
  /\ ~Awake => \A t \in Tasks : pc[t] = "out"

\* What is written is in range, and an SMI ended in a way its threshold allows.
RangeInv ==
  /\ \A t \in Tasks :
       pc[t] \in {"down"} \cup StoreCalls => thresh[t] \in ThreshRange(which[t])
  /\ pc[PM] \in {"verify_saved", "restore"} => saved[which[PM]] >= 0
  /\ \A p \in Procs :
       code[p] # "none" => pc[p] \in Calls /\ code[p] \in Outcomes(Target(p))

CallInv == TypeOK /\ RoleInv /\ RangeInv

LEMMA CallInit == Init => CallInv
  <1> SUFFICES ASSUME Init
               PROVE  CallInv
    OBVIOUS
  <1>1. TypeOK
    <2>1. hw \in [Which -> 0 .. 99] /\ missing \subseteq Which
      BY BiosAssumption DEF Init, Which
    <2>2. SMAPI_MAX_RETRIES - 1 \in Nat
      BY BiosAssumption
    <2>3. QED
      BY <2>1, <2>2 DEF Init, TypeOK, Which, Unset
  <1>2. RoleInv
    BY ProcsAssumption DEF Init, RoleInv, Procs, PMPlaces, Awake, StoreCalls
  <1>3. RangeInv
    BY DEF Init, RangeInv, StoreCalls, Procs
  <1>4. QED
    BY <1>1, <1>2, <1>3 DEF CallInv

\* A value that is written is one of the hardware's.
LEMMA WrittenType ==
  ASSUME CallInv, NEW p \in Procs, pc[p] \in SetCalls
  PROVE  Written(p) \in 0 .. 99 /\ Target(p) \in Which
  <1>1. which[p] \in Which
    BY DEF CallInv, TypeOK
  <1>2. Target(p) \in Which
    BY <1>1, OtherType DEF Target
  <1>3. CASE p = PM
    BY <1>1, <1>2, <1>3
    DEF CallInv, TypeOK, RoleInv, RangeInv, PMPlaces, Written, SetCalls
  <1>4. CASE p \in Tasks
    <2>1. pc[p] \in {"set_other", "set_this"} /\ thresh[p] \in ThreshRange(which[p])
      BY <1>4 DEF CallInv, RoleInv, RangeInv, SetCalls, StoreCalls
    <2>2. CASE pc[p] = "set_other"
      <3>1. Real(Other(which[p]), MovedTo(which[p], thresh[p])) \in 0 .. 99
        BY <1>1, <2>1, OtherType, MovedApart, ShownReal
      <3>2. QED
        BY <1>2, <2>2, <3>1 DEF Written
    <2>3. CASE pc[p] = "set_this"
      <3>1. Real(which[p], thresh[p]) \in 0 .. 99
        BY <1>1, <2>1, ShownReal
      <3>2. QED
        BY <1>2, <2>3, <3>1 DEF Written
    <2>4. QED
      BY <2>1, <2>2, <2>3
  <1>5. QED
    BY <1>3, <1>4 DEF Procs

LEMMA CallSMI ==
  ASSUME CallInv, NEW p \in Procs, SMI(p)
  PROVE  CallInv'
  <1> USE DEF CallInv, pmVars
  <1>1. PICK c \in Outcomes(Target(p)) :
          /\ code' = [code EXCEPT ![p] = c]
          /\ \/ /\ pc[p] \in GetCalls /\ c = "c0x00"
                /\ \E v \in {hw[Target(p)], Unset} :
                     ecx' = [ecx EXCEPT ![p] = Taken(p, v)]
                /\ UNCHANGED hw
             \/ /\ pc[p] \in GetCalls /\ c # "c0x00"
                /\ ecx' = [ecx EXCEPT ![p] = IF bat = 0 THEN 0 ELSE Unset]
                /\ UNCHANGED hw
             \/ /\ pc[p] \in SetCalls
                /\ hw' = IF c = "c0x00" THEN [hw EXCEPT ![Target(p)] = Written(p)]
                         ELSE hw
                /\ UNCHANGED ecx
    BY DEF SMI
  <1>2. UNCHANGED <<missing, mutex, pc, which, thresh, other, tries, ret, saved,
                    before, failed>>
    BY DEF SMI
  <1>3. hw' \in [Which -> 0 .. 99]
    BY <1>1, WrittenType DEF TypeOK
  <1>4. ecx' \in [Procs -> -1 .. 99]
    <2>1. Target(p) \in Which
      BY OtherType DEF Target, TypeOK
    <2>2. \A v \in {hw[Target(p)], Unset} : Taken(p, v) \in -1 .. 99
      BY <2>1 DEF Taken, Unset, TypeOK
    <2>3. QED
      BY <1>1, <2>2 DEF Unset, TypeOK
  <1>5. c \in DOMAIN smapi_retcode
    BY <1>1, BiosAssumption DEF Outcomes, smapi_retcode
  <1>6. TypeOK'
    BY <1>1, <1>2, <1>3, <1>4, <1>5 DEF TypeOK
  <1>7. RoleInv'
    BY <1>2 DEF RoleInv, Awake
  <1>8. RangeInv'
    <2>1. pc[p] \in Calls
      BY DEF SMI, Calls
    <2>2. \A q \in Procs : Outcomes(Target(q))' = Outcomes(Target(q))
      BY <1>2 DEF Outcomes, Target
    <2>3. QED
      BY <1>1, <1>2, <2>1, <2>2 DEF RangeInv, TypeOK
  <1>9. QED
    BY <1>6, <1>7, <1>8

\* smapi_request returns r: what the caller reads is there when r is "ok".
Answered(p, r) ==
  /\ pc[p] \in Calls /\ r \in {"ok"} \cup Errors
  /\ r = "ok" /\ pc[p] \in GetCalls => ecx[p] # Unset
  /\ code' = [code EXCEPT ![p] = "none"]
  /\ UNCHANGED <<hw, missing>>
  /\ Returns(p, r)

LEMMA InterruptedAnswered ==
  ASSUME CallInv, NEW p \in Procs, Interrupted(p)
  PROVE  Answered(p, "EINTR")
  <1>1. code' = [code EXCEPT ![p] = "none"]
    BY DEF Interrupted, CallInv, TypeOK
  <1>2. QED
    BY <1>1 DEF Interrupted, Answered, Calls, Errors

\* After the sleep the call is made once more or returns; it returns no
\* success for a code that is none.
LEMMA WakeAnswered ==
  ASSUME CallInv, NEW p \in Procs, Wake(p)
  PROVE  \/ /\ tries' = [tries EXCEPT ![p] = @ + 1]
            /\ tries[p] + 1 < SMAPI_MAX_RETRIES
            /\ smapi_retcode[code[p]] = "EBUSY"
            /\ code' = [code EXCEPT ![p] = "none"]
            /\ UNCHANGED <<hw, missing, mutex, pc, which, thresh, other, ecx, ret,
                           saved, before, failed>>
         \/ \E r : /\ Answered(p, r)
                   /\ r = "ok" => code[p] \in {"c0x00", "c0x92"}
                   /\ r \in NoSuchThresh => smapi_retcode[code[p]] \in NoSuchThresh
  <1> DEFINE r == smapi_retcode[code[p]]
             R == IF r = "ok" /\ pc[p] \in GetCalls /\ ecx[p] = Unset THEN "EIO" ELSE r
  <1>1. pc[p] \in Calls /\ code[p] \in DOMAIN smapi_retcode
    BY DEF Wake, CallInv, TypeOK, RangeInv
  <1>2. r \in {"ok"} \cup Errors /\ (r = "ok" => code[p] \in {"c0x00", "c0x92"})
    BY <1>1, RetTypes
  <1>3. CASE r = "EBUSY" /\ tries[p] + 1 < SMAPI_MAX_RETRIES /\ tries' = [tries EXCEPT ![p] = @ + 1]
             /\ UNCHANGED <<mutex, pc, which, thresh, other, ecx, ret, pmVars>>
    BY <1>3 DEF Wake, pmVars
  <1>4. CASE Returns(p, R)
    <2>1. R \in {"ok"} \cup Errors
      BY <1>2 DEF Errors
    <2>2. R = "ok" => r = "ok" /\ (pc[p] \in GetCalls => ecx[p] # Unset)
      OBVIOUS
    <2>3. R \in NoSuchThresh => r \in NoSuchThresh
      BY DEF NoSuchThresh
    <2>4. code' = [code EXCEPT ![p] = "none"] /\ UNCHANGED <<hw, missing>>
      BY DEF Wake
    <2>5. Answered(p, R)
      BY <1>1, <1>4, <2>1, <2>2, <2>4 DEF Answered
    <2>6. QED
      BY <1>2, <2>2, <2>3, <2>5
  <1>5. QED
    BY <1>3, <1>4 DEF Wake

LEMMA CallRetry ==
  ASSUME CallInv, NEW p \in Procs,
         tries' = [tries EXCEPT ![p] = @ + 1], tries[p] + 1 < SMAPI_MAX_RETRIES,
         code' = [code EXCEPT ![p] = "none"],
         UNCHANGED <<hw, missing, mutex, pc, which, thresh, other, ecx, ret, saved,
                     before, failed>>
  PROVE  CallInv'
  <1>1. TypeOK'
    <2>1. tries' \in [Procs -> 0 .. SMAPI_MAX_RETRIES - 1]
      BY BiosAssumption DEF CallInv, TypeOK
    <2>2. QED
      BY <2>1 DEF CallInv, TypeOK
  <1>2. RoleInv'
    BY DEF CallInv, RoleInv, Awake
  <1>3. RangeInv'
    BY DEF CallInv, TypeOK, RangeInv, Outcomes, Target
  <1>4. QED
    BY <1>1, <1>2, <1>3 DEF CallInv

\* Where a store is after each call, and how it got there.
LEMMA StoreGoes ==
  ASSUME CallInv, NEW p \in Procs, pc[p] \in StoreCalls, NEW r, StoreContinues(p, r)
  PROVE  /\ pc' = [pc EXCEPT ![p] = pc'[p]]
         /\ pc'[p] \in (StoreCalls \cup {"unlock"}) \ {"get_other"}
         /\ pc'[p] = "get_this" => pc[p] = "get_other" /\ r = "ok"
         /\ pc'[p] = "verify_other" =>
              pc[p] = "get_this" /\ r = "ok" /\ TooClose(which[p], thresh[p], other[p])
         /\ pc'[p] = "set_other" => pc[p] = "verify_other" /\ r = "ok"
         /\ pc'[p] = "verify_this" =>
              \/ pc[p] = "get_other" /\ r \in NoSuchThresh
              \/ pc[p] = "get_this" /\ r = "ok"
                   /\ ~TooClose(which[p], thresh[p], other[p])
              \/ pc[p] = "set_other" /\ r = "ok"
         /\ pc'[p] = "set_this" => pc[p] = "verify_this" /\ r = "ok"
         /\ pc'[p] = "unlock" /\ r = "ok" => pc[p] = "set_this"
  <1> DEFINE next ==
        CASE pc[p] = "get_other" -> "get_this"
          [] pc[p] = "get_this" ->
               IF TooClose(which[p], thresh[p], other[p])
               THEN "verify_other" ELSE "verify_this"
          [] pc[p] = "verify_other" -> "set_other"
          [] pc[p] = "set_other" -> "verify_this"
          [] pc[p] = "verify_this" -> "set_this"
  <1>1. /\ pc[p] = "get_other" => next = "get_this"
        /\ pc[p] = "get_this" =>
             next = IF TooClose(which[p], thresh[p], other[p])
                    THEN "verify_other" ELSE "verify_this"
        /\ pc[p] = "verify_other" => next = "set_other"
        /\ pc[p] = "set_other" => next = "verify_this"
        /\ pc[p] = "verify_this" => next = "set_this"
    OBVIOUS
  <1>2. pc' = [pc EXCEPT ![p] =
                 IF pc[p] = "get_other" /\ r \in NoSuchThresh THEN "verify_this"
                 ELSE IF r # "ok" \/ pc[p] = "set_this" THEN "unlock" ELSE next]
    BY DEF StoreContinues
  <1> HIDE DEF next
  <1>3. pc'[p] = IF pc[p] = "get_other" /\ r \in NoSuchThresh THEN "verify_this"
                 ELSE IF r # "ok" \/ pc[p] = "set_this" THEN "unlock" ELSE next
    BY <1>2 DEF CallInv, TypeOK
  <1>4. pc' = [pc EXCEPT ![p] = pc'[p]]
    BY <1>2, <1>3
  <1>5. r \in NoSuchThresh => r # "ok"
    BY DEF NoSuchThresh
  <1>6. QED
    BY <1>1, <1>3, <1>4, <1>5 DEF StoreCalls

\* ... and so for the callers of get_real_thresh and set_real_thresh in
\* tp_suspend and tp_resume.
LEMMA PMGoes ==
  ASSUME CallInv, NEW r, Saves(PM, r) \/ Restores(PM, r),
         pc[PM] \in {"save", "verify_saved", "restore"}
  PROVE  /\ pc' = [pc EXCEPT ![PM] = pc'[PM]]
         /\ which' = [which EXCEPT ![PM] = which'[PM]]
         /\ pc'[PM] \in PMPlaces \ {"out"}
         /\ which'[PM] \in Which
  BY DEF Saves, Restores, NextThresh, PMPlaces, Which, CallInv, TypeOK, Procs

LEMMA CallReturn ==
  ASSUME CallInv, NEW p \in Procs, NEW r, Answered(p, r)
  PROVE  CallInv'
  <1> USE DEF CallInv
  <1>1. /\ r \in {"ok"} \cup Errors
        /\ code' = [code EXCEPT ![p] = "none"]
        /\ UNCHANGED <<hw, missing>>
        /\ tries' = [tries EXCEPT ![p] = 0]
        /\ ecx' = [ecx EXCEPT ![p] = Unset]
        /\ ret' = [ret EXCEPT ![p] = IF pc[p] \in StoreCalls THEN r ELSE "ok"]
    BY DEF Answered, Returns
  <1>2. /\ missing' \subseteq Which /\ hw' \in [Which -> 0 .. 99]
        /\ code' \in [Procs -> {"none"} \cup DOMAIN smapi_retcode]
        /\ tries' \in [Procs -> 0 .. SMAPI_MAX_RETRIES - 1]
        /\ ecx' \in [Procs -> -1 .. 99]
        /\ ret' \in [Procs -> {"ok"} \cup Errors]
    BY <1>1, BiosAssumption DEF TypeOK, Unset, Errors
  <1>3. \A q \in Procs : code'[q] # "none" => q # p /\ code'[q] = code[q]
    BY <1>1 DEF TypeOK
  <1>4. CASE p \in Tasks /\ pc[p] = "show" /\ ShowReturns(p)
    <2>1. TypeOK'
      BY <1>2, <1>4 DEF TypeOK, ShowReturns, pmVars, Which, Errors
    <2>2. RoleInv'
      BY <1>4, ProcsAssumption
      DEF TypeOK, RoleInv, ShowReturns, Procs, Awake, PMPlaces, StoreCalls
    <2>3. RangeInv'
      BY <1>1, <1>3, <1>4, ProcsAssumption
      DEF TypeOK, RangeInv, ShowReturns, Procs, StoreCalls, pmVars, Outcomes, Target
    <2>4. QED
      BY <2>1, <2>2, <2>3
  <1>5. CASE p \in Tasks /\ pc[p] \in StoreCalls /\ StoreContinues(p, r)
    <2>1. /\ pc' = [pc EXCEPT ![p] = pc'[p]]
          /\ pc'[p] \in StoreCalls \cup {"unlock"}
      BY <1>5, StoreGoes
    <2>2. other' \in [Procs -> 0 .. 100]
      <3>1. CASE pc[p] = "get_other" /\ r = "ok"
        <4>1. ecx[p] \in 0 .. 99
          BY <3>1 DEF Answered, GetCalls, TypeOK, Unset
        <4>2. Other(which[p]) \in Which
          BY OtherType DEF TypeOK
        <4>3. QED
          BY <1>5, <3>1, <4>1, <4>2, ShownType DEF StoreContinues, TypeOK
      <3>2. CASE ~(pc[p] = "get_other" /\ r = "ok")
        BY <1>5, <3>2 DEF StoreContinues, TypeOK
      <3>3. QED
        BY <3>1, <3>2
    <2>3. TypeOK'
      BY <1>2, <1>5, <2>1, <2>2
      DEF TypeOK, StoreContinues, pmVars, Errors, StoreCalls, GetCalls, SetCalls
    <2>4. RoleInv'
      BY <1>5, <2>1, ProcsAssumption
      DEF TypeOK, RoleInv, StoreContinues, Procs, Awake, StoreCalls
    <2>5. RangeInv'
      BY <1>1, <1>3, <1>5, <2>1, ProcsAssumption
      DEF TypeOK, RangeInv, StoreContinues, Procs, pmVars, Outcomes, Target
    <2>6. QED
      BY <2>3, <2>4, <2>5
  <1>6. CASE p = PM /\ pc[p] \in {"save", "verify_saved", "restore"}
             /\ (Saves(p, r) \/ Restores(p, r))
    <2>1. /\ pc' = [pc EXCEPT ![PM] = pc'[PM]]
          /\ which' = [which EXCEPT ![PM] = which'[PM]]
          /\ pc'[PM] \in PMPlaces \ {"out"} /\ which'[PM] \in Which
      BY <1>6, PMGoes
    <2>2. saved' \in [Which -> -1 .. 99]
      BY <1>6 DEF Saves, Restores, TypeOK
    <2>3. UNCHANGED <<mutex, thresh, other, before>> /\ failed' \subseteq Which
      BY <1>6 DEF Saves, Restores, TypeOK
    <2>4. TypeOK'
      BY <1>2, <2>1, <2>2, <2>3 DEF TypeOK, Errors, PMPlaces, GetCalls, SetCalls
    <2>5. \A t \in Tasks : pc'[t] = pc[t] /\ which'[t] = which[t] /\ pc[t] = "out"
      BY <1>6, <2>1, ProcsAssumption DEF TypeOK, RoleInv, Awake, Procs
    <2>6. RoleInv'
      BY <2>1, <2>3, <2>5 DEF TypeOK, RoleInv, Procs
    <2>7. pc'[PM] \in {"verify_saved", "restore"} => saved'[which'[PM]] >= 0
      BY <1>6 DEF Saves, Restores, NextThresh, TypeOK, RangeInv
    <2>8. \A q \in Procs : q # p => pc'[q] = pc[q] /\ which'[q] = which[q]
      BY <1>6, <2>1 DEF TypeOK
    <2>9. RangeInv'
      BY <1>1, <1>3, <2>3, <2>5, <2>7, <2>8
      DEF TypeOK, RangeInv, Procs, Outcomes, Target
    <2>10. QED
      BY <2>4, <2>6, <2>9
  <1>7. QED
    BY <1>4, <1>5, <1>6
    DEF Answered, Returns, RoleInv, Procs, PMPlaces, StoreCalls

LEMMA CallStep == CallInv /\ [Next]_vars => CallInv'
  <1> SUFFICES ASSUME CallInv, [Next]_vars
               PROVE  CallInv'
    OBVIOUS
  <1>1. ASSUME NEW p \in Procs, Step(p)
        PROVE  CallInv'
    BY <1>1, CallSMI, InterruptedAnswered, WakeAnswered, CallReturn, CallRetry
    DEF Step
  <1> USE ProcsAssumption
      DEF CallInv, TypeOK, RoleInv, RangeInv, Procs, Awake, PMPlaces, StoreCalls,
          callVars, pmVars, Outcomes, Target
  <1>2. ASSUME NEW t \in Tasks, NEW w \in Which, Show(t, w)
        PROVE  CallInv'
    BY <1>2 DEF Show, Calls, GetCalls, SetCalls
  <1>3. ASSUME NEW t \in Tasks, NEW w \in Which, NEW v \in Requests, Store(t, w, v)
        PROVE  CallInv'
    <2>1. Clamp(w, v) \in ThreshRange(w)
      BY BiosAssumption, ClampRange
    <2>2. Clamp(w, v) \in 0 .. 100
      BY <2>1 DEF ThreshRange, MIN_THRESH_START, MAX_THRESH_START, MIN_THRESH_STOP,
                  MAX_THRESH_STOP, MIN_THRESH_DELTA
    <2>3. thresh' = [thresh EXCEPT ![t] = Clamp(w, v)] /\ which' = [which EXCEPT ![t] = w]
      BY <1>3 DEF Store
    <2>4. QED
      BY <1>3, <2>1, <2>2, <2>3 DEF Store, Calls, GetCalls, SetCalls
  <1>4. ASSUME NEW t \in Tasks, Lock(t)
        PROVE  CallInv'
    BY <1>4 DEF Lock, Calls, GetCalls, SetCalls
  <1>5. ASSUME NEW t \in Tasks, Unlock(t)
        PROVE  CallInv'
    BY <1>5 DEF Unlock, Forgets, Which, Calls, GetCalls, SetCalls
  <1>6. ASSUME NEW disk \in BOOLEAN, Suspend(disk)
        PROVE  CallInv'
    <2>1. \A t \in Tasks : pc[t] = "out" /\ pc'[t] = "out"
      BY <1>6 DEF Suspend
    <2>2. QED
      BY <1>6, <2>1 DEF Suspend, Which, Calls, GetCalls, SetCalls
  <1>7. CASE Unplug
    BY <1>7 DEF Unplug
  <1>8. CASE Resume
    BY <1>8 DEF Resume, Which, Calls, GetCalls, SetCalls
  <1>9. CASE ResumeThresh
    BY <1>9 DEF ResumeThresh, NextThresh, Which, Calls, GetCalls, SetCalls
  <1>10. CASE Thaw
    BY <1>10 DEF Thaw, Which, Calls, GetCalls, SetCalls
  <1>11. CASE UNCHANGED vars
    BY <1>11 DEF vars
  <1>12. QED
    BY <1>1, <1>2, <1>3, <1>4, <1>5, <1>6, <1>7, <1>8, <1>9, <1>10, <1>11
    DEF Next

(***************************************************************************)
(* Every variable keeps its type: no store writes a value the hardware     *)
(* does not have, no call is retried for ever.                             *)
(***************************************************************************)
THEOREM Typing == Spec => []TypeOK
  <1>1. CallInv => TypeOK
    BY DEF CallInv
  <1>2. QED
    BY CallInit, CallStep, <1>1, PTL DEF Spec

LEMMA Calling == Spec => []CallInv
  BY CallInit, CallStep, PTL DEF Spec

-----------------------------------------------------------------------------
(* The stores, on a BIOS that never answers "System is busy", which        *)
(* smapi_request takes for success although nothing was done.              *)

OtherShown(t) == Shown(Other(which[t]), hw[Other(which[t])])

\* The SMI has done what it was asked for; the sleep after it is not over.
Done(p) == code[p] = "c0x00"

\* What a store knows at each of its calls: the other threshold is as it has
\* read it until it writes it, and after that in place for the new value.
StoreKnows(t) ==
  /\ pc[t] = "get_other" /\ Done(t) /\ ecx[t] # Unset
       => ecx[t] = hw[Other(which[t])]
  /\ pc[t] \in {"get_this", "verify_other"} \/ (pc[t] = "set_other" /\ ~Done(t))
       => other[t] = OtherShown(t)
  /\ pc[t] \in {"verify_other", "set_other"}
       => TooClose(which[t], thresh[t], other[t])
  /\ pc[t] = "set_other" /\ Done(t)
       => OtherShown(t) = MovedTo(which[t], thresh[t])
  /\ pc[t] \in {"verify_this", "set_this"}
       => Apart(which[t], thresh[t], OtherShown(t))
  /\ pc[t] = "set_this" /\ Done(t) => hw[which[t]] = Real(which[t], thresh[t])
  /\ pc[t] = "unlock" /\ ret[t] = "ok" => Valid

StoreInv == missing = {} => \A t \in Tasks : StoreKnows(t)

LEMMA StoreInit == Init => StoreInv
  BY DEF Init, StoreInv, StoreKnows, Procs

\* Only the holder of the mutex writes while the system is awake.
LEMMA OneWriter ==
  ASSUME CallInv, NEW p \in Procs, pc[p] \in SetCalls, NEW t \in Tasks, t # p
  PROVE  pc[t] \notin StoreCalls \cup {"unlock"}
  BY DEF CallInv, RoleInv, Procs, SetCalls, StoreCalls, Awake

LEMMA StoreSMI ==
  ASSUME CallInv, StoreInv, NEW p \in Procs, SMI(p)
  PROVE  StoreInv'
  <1> SUFFICES ASSUME missing = {}, NEW t \in Tasks, StoreKnows(t)
               PROVE  StoreKnows(t)'
    BY DEF StoreInv, SMI
  <1>1. UNCHANGED <<missing, mutex, pc, which, thresh, other, tries, ret>>
    BY DEF SMI
  <1>2. hw \in [Which -> 0 .. 99] /\ which[t] \in Which /\ Other(which[t]) \in Which
        /\ Other(which[t]) # which[t]
    BY OtherType DEF CallInv, TypeOK, Procs
  <1>3. CASE t # p
    <2>1. UNCHANGED <<code[t], ecx[t]>>
      BY <1>3 DEF SMI, CallInv, TypeOK, Procs
    <2>2. UNCHANGED hw \/ pc[t] \notin StoreCalls \cup {"unlock"}
      BY <1>3, OneWriter DEF SMI
    <2>3. CASE UNCHANGED hw
      BY <1>1, <2>1, <2>3 DEF StoreKnows, OtherShown, Done, Valid
    <2>4. CASE pc[t] \notin StoreCalls \cup {"unlock"}
      BY <1>1, <2>4 DEF StoreKnows, StoreCalls
    <2>5. QED
      BY <2>2, <2>3, <2>4
  <1>4. CASE t = p /\ pc[t] \in GetCalls
    <2>1. UNCHANGED hw
      BY <1>4 DEF SMI, GetCalls, SetCalls
    <2>2. pc[t] = "get_other" /\ code'[t] = "c0x00" /\ ecx'[t] # Unset
            => ecx'[t] = hw[Other(which[t])]
      BY <1>4 DEF SMI, Taken, Target, CallInv, TypeOK, GetCalls, SetCalls
    <2>3. QED
      BY <1>1, <1>4, <2>1, <2>2 DEF StoreKnows, OtherShown, Done, GetCalls
  <1>5. CASE t = p /\ pc[t] \in SetCalls
    <2>1. pc[t] \in {"set_other", "set_this"} /\ thresh[t] \in ThreshRange(which[t])
      BY <1>5 DEF CallInv, RoleInv, RangeInv, SetCalls, StoreCalls
    <2>2. /\ code'[t] = "c0x00" => hw' = [hw EXCEPT ![Target(t)] = Written(t)]
          /\ code'[t] # "c0x00" => hw' = hw
      BY <1>5 DEF SMI, CallInv, TypeOK, GetCalls, SetCalls
    <2>3. CASE pc[t] = "set_other"
      <3>1. /\ Target(t) = Other(which[t])
            /\ Written(t) = Real(Other(which[t]), MovedTo(which[t], thresh[t]))
        BY <2>3 DEF Target, Written
      <3>2. code'[t] = "c0x00" => OtherShown(t)' = MovedTo(which[t], thresh[t])
        BY <1>1, <1>2, <2>1, <2>2, <3>1, MovedApart, ShownReal DEF OtherShown
      <3>3. code'[t] # "c0x00" => other[t] = OtherShown(t)'
        BY <1>1, <1>5, <2>2, <2>3 DEF SMI, StoreKnows, OtherShown, Done
      <3>4. QED
        BY <1>1, <2>3, <3>2, <3>3 DEF StoreKnows, Done
    <2>4. CASE pc[t] = "set_this"
      <3>1. Target(t) = which[t] /\ Written(t) = Real(which[t], thresh[t])
        BY <2>4 DEF Target, Written
      <3>2. OtherShown(t)' = OtherShown(t)
        BY <1>1, <1>2, <2>2, <3>1 DEF OtherShown
      <3>3. code'[t] = "c0x00" => hw'[which[t]] = Real(which[t], thresh[t])
        BY <1>2, <2>2, <3>1
      <3>4. QED
        BY <1>1, <2>4, <3>2, <3>3 DEF StoreKnows, Done
    <2>5. QED
      BY <2>1, <2>3, <2>4
  <1>6. QED
    BY <1>3, <1>4, <1>5 DEF SMI

\* The answers of a BIOS without the codes 0x92 and 0xa2.
LEMMA HonestAnswer ==
  ASSUME "c0x92" \notin BiosCodes, CallInv, NEW p \in Procs, NEW r,
         r = "ok" => code[p] \in {"c0x00", "c0x92"},
         r \in NoSuchThresh => smapi_retcode[code[p]] \in NoSuchThresh,
         code[p] # "none"
  PROVE  /\ r = "ok" => Done(p)
         /\ "c0xa2" \notin BiosCodes /\ missing = {} => r \notin NoSuchThresh
  <1>1. code[p] \in Outcomes(Target(p))
    BY DEF CallInv, RangeInv
  <1>2. r = "ok" => Done(p)
    BY <1>1, BiosAssumption DEF Outcomes, Done
  <1>3. \A c \in BiosCodes \ {"c0xa2"} : smapi_retcode[c] \notin NoSuchThresh
    BY BiosAssumption DEF smapi_retcode, NoSuchThresh
  <1>4. missing = {} => code[p] \in BiosCodes
    BY <1>1 DEF Outcomes
  <1>5. QED
    BY <1>2, <1>3, <1>4

LEMMA StoreReturn ==
  ASSUME CallInv, StoreInv, NEW p \in Procs, NEW r, Answered(p, r),
         r = "ok" => Done(p), missing = {} => r \notin NoSuchThresh
  PROVE  StoreInv'
  <1> SUFFICES ASSUME missing = {}, NEW t \in Tasks, StoreKnows(t)
               PROVE  StoreKnows(t)'
    BY DEF StoreInv, Answered
  <1>1. UNCHANGED <<hw, missing>> /\ code' = [code EXCEPT ![p] = "none"]
    BY DEF Answered
  <1>2. hw \in [Which -> 0 .. 99] /\ which[t] \in Which /\ Other(which[t]) \in Which
    BY OtherType DEF CallInv, TypeOK, Procs
  <1>3. CASE t # p
    <2>1. UNCHANGED <<pc[t], which[t], thresh[t], other[t], ret[t], code[t], ecx[t]>>
      <3> USE <1>3 DEF CallInv, TypeOK, Procs
      <3>1. UNCHANGED <<ret[t], code[t], ecx[t]>>
        BY DEF Answered, Returns
      <3>2. CASE ShowReturns(p)
        BY <3>1, <3>2 DEF ShowReturns
      <3>3. CASE Saves(p, r) \/ Restores(p, r)
        BY <3>1, <3>3 DEF Saves, Restores, NextThresh
      <3>4. CASE pc[p] \in StoreCalls /\ StoreContinues(p, r)
        <4>1. UNCHANGED <<pc[t]>>
          BY <3>4, StoreGoes
        <4>2. QED
          BY <3>1, <3>4, <4>1 DEF StoreContinues
      <3>5. QED
        BY <3>2, <3>3, <3>4 DEF Answered, Returns
    <2>2. QED
      BY <1>1, <2>1 DEF StoreKnows, OtherShown, Done, Valid
  <1>4. CASE t = p /\ pc[t] = "show"
    <2>1. pc'[t] = "out"
      BY <1>4
      DEF Answered, Returns, ShowReturns, StoreCalls, CallInv, TypeOK
    <2>2. QED
      BY <2>1 DEF StoreKnows
  <1>5. CASE t = p /\ pc[t] \in StoreCalls
    <2>1. StoreContinues(t, r) /\ ret'[t] = r
      BY <1>5 DEF Answered, Returns, StoreCalls, CallInv, TypeOK
    <2>2. UNCHANGED <<which, thresh>> /\ code'[t] = "none"
      BY <1>1, <1>5, <2>1 DEF StoreContinues, CallInv, TypeOK
    <2>3. OtherShown(t)' = OtherShown(t)
      BY <1>1, <2>2 DEF OtherShown
    <2>4. thresh[t] \in ThreshRange(which[t]) /\ thresh[t] \in 0 .. 100
          /\ OtherShown(t) \in 0 .. 100
      BY <1>2, <1>5, ShownType DEF CallInv, TypeOK, RangeInv, OtherShown, Procs
    <2>5. /\ pc[t] = "get_other" /\ r = "ok" => other'[t] = OtherShown(t)
          /\ pc[t] # "get_other" => other'[t] = other[t]
      <3>1. pc[t] = "get_other" /\ r = "ok" => ecx[t] # Unset
        BY <1>5 DEF Answered, GetCalls
      <3>2. QED
        BY <1>5, <2>1, <3>1 DEF StoreContinues, StoreKnows, OtherShown, CallInv, TypeOK
    <2>6. pc'[t] \in {"verify_this", "set_this"}
            => Apart(which[t], thresh[t], OtherShown(t))
      <3>1. pc'[t] = "verify_this" /\ pc[t] = "get_this"
              => ~TooClose(which[t], thresh[t], OtherShown(t))
        BY <1>5, <2>1, StoreGoes DEF StoreKnows
      <3>2. pc'[t] = "verify_this" /\ pc[t] = "set_other"
              => OtherShown(t) = MovedTo(which[t], thresh[t])
        BY <1>5, <2>1, StoreGoes DEF StoreKnows
      <3>3. pc'[t] = "verify_this" => pc[t] \in {"get_this", "set_other"}
        BY <1>5, <2>1, StoreGoes
      <3>4. pc'[t] = "set_this" => pc[t] = "verify_this"
        BY <1>5, <2>1, StoreGoes
      <3>5. QED
        BY <1>2, <2>4, <3>1, <3>2, <3>3, <3>4, NotTooClose, MovedApart
        DEF StoreKnows
    <2>7. pc'[t] = "unlock" /\ r = "ok" => Valid
      <3> SUFFICES ASSUME pc'[t] = "unlock", r = "ok"
                   PROVE  Valid
        OBVIOUS
      <3>1. pc[t] = "set_this"
        BY <1>5, <2>1, StoreGoes
      <3>2. Shown(which[t], hw[which[t]]) = thresh[t]
        BY <1>2, <1>5, <2>4, <3>1, ShownReal DEF StoreKnows
      <3>3. Apart(which[t], thresh[t], OtherShown(t))
        BY <3>1 DEF StoreKnows
      <3>4. QED
        BY <1>2, <3>2, <3>3, ValidApart DEF OtherShown
    <2>8. /\ pc'[t] \in {"get_this", "verify_other", "set_other"}
               => other'[t] = OtherShown(t)
          /\ pc'[t] \in {"verify_other", "set_other"}
               => TooClose(which[t], thresh[t], other'[t])
      BY <1>5, <2>1, <2>5, StoreGoes DEF StoreKnows
    <2>9. pc'[t] # "get_other"
      BY <1>5, <2>1, StoreGoes
    <2>10. Valid' = Valid
      BY <1>1 DEF Valid
    <2>11. QED
      BY <2>1, <2>2, <2>3, <2>6, <2>7, <2>8, <2>9, <2>10 DEF StoreKnows, Done
  <1>6. QED
    BY <1>3, <1>4, <1>5, ProcsAssumption
    DEF Answered, CallInv, RoleInv, Procs, Calls, GetCalls, SetCalls, StoreCalls

LEMMA StoreStep ==
  ASSUME BiosCodes \cap {"c0x92", "c0xa2"} = {}
  PROVE  CallInv /\ StoreInv /\ [Next]_vars => StoreInv'
  <1> SUFFICES ASSUME CallInv, StoreInv, [Next]_vars
               PROVE  StoreInv'
    OBVIOUS
  <1>1. ASSUME NEW p \in Procs, SMI(p)
        PROVE  StoreInv'
    BY <1>1, StoreSMI
  <1>2. ASSUME NEW p \in Procs, Interrupted(p)
        PROVE  StoreInv'
    BY <1>2, InterruptedAnswered, StoreReturn DEF NoSuchThresh
  <1>3. ASSUME NEW p \in Procs, Wake(p)
        PROVE  StoreInv'
    <2>1. CASE /\ code' = [code EXCEPT ![p] = "none"]
               /\ smapi_retcode[code[p]] = "EBUSY"
               /\ UNCHANGED <<hw, missing, pc, which, thresh, other, ecx, ret>>
      <3>1. \A t \in Tasks : (Done(t)' => Done(t)) /\ (t # p => Done(t)' = Done(t))
        BY <2>1 DEF Done, CallInv, TypeOK, Procs
      <3>2. code[p] # "c0x00"
        BY <2>1 DEF smapi_retcode
      <3>3. \A t \in Tasks : Done(t)' = Done(t)
        BY <3>1, <3>2 DEF Done
      <3>4. QED
        BY <2>1, <3>3 DEF StoreInv, StoreKnows, OtherShown, Valid
    <2>2. ASSUME NEW r, Answered(p, r), r = "ok" => code[p] \in {"c0x00", "c0x92"},
                 r \in NoSuchThresh => smapi_retcode[code[p]] \in NoSuchThresh
          PROVE  StoreInv'
      <3>1. code[p] # "none"
        BY <1>3 DEF Wake
      <3>2. QED
        BY <2>2, <3>1, HonestAnswer, StoreReturn
    <2>3. QED
      BY <1>3, <2>1, <2>2, WakeAnswered
  <1> USE DEF StoreInv, StoreKnows, OtherShown, Done, Valid, callVars, pmVars,
              CallInv, TypeOK, RangeInv, Procs, StoreCalls, Calls, GetCalls, SetCalls
  <1>4. ASSUME NEW t \in Tasks, NEW w \in Which, Show(t, w)
        PROVE  StoreInv'
    BY <1>4 DEF Show
  <1>5. ASSUME NEW t \in Tasks, NEW w \in Which, NEW v \in Requests, Store(t, w, v)
        PROVE  StoreInv'
    BY <1>5 DEF Store
  <1>6. ASSUME NEW t \in Tasks, Lock(t)
        PROVE  StoreInv'
    BY <1>6 DEF Lock
  <1>7. ASSUME NEW t \in Tasks, Unlock(t)
        PROVE  StoreInv'
    BY <1>7 DEF Unlock, Forgets
  <1>8. CASE (\E disk \in BOOLEAN : Suspend(disk)) \/ Unplug \/ Resume \/ ResumeThresh \/ Thaw
    <2>1. \A t \in Tasks : pc[t] = "out" /\ pc'[t] = "out"
      BY <1>8, ProcsAssumption
      DEF Suspend, Unplug, Resume, ResumeThresh, NextThresh, Thaw, RoleInv, Awake
    <2>2. QED
      BY <2>1
  <1>9. CASE UNCHANGED vars
    BY <1>9 DEF vars
  <1>10. QED
    BY <1>1, <1>2, <1>3, <1>4, <1>5, <1>6, <1>7, <1>8, <1>9 DEF Next, Step

(***************************************************************************)
(* A store that met no error has left the two thresholds far enough apart, *)
(* whatever state they were in before and however many other stores and    *)
(* shows overlapped, with a BIOS that never answers 0x92, which passes for *)
(* success, nor 0xa2: a battery taken out in the middle of a store passes  *)
(* for one without the other threshold.                                    *)
(***************************************************************************)
THEOREM StoresEndValid ==
  ASSUME BiosCodes \cap {"c0x92", "c0xa2"} = {}
  PROVE  Spec => []StoreEndsValid
  <1>1. CallInv /\ StoreInv /\ [Next]_vars => StoreInv'
    BY StoreStep
  <1>2. StoreInv => StoreEndsValid
    BY DEF StoreInv, StoreKnows, StoreEndsValid, Valid
  <1>3. QED
    BY <1>1, <1>2, StoreInit, Calling, PTL DEF Spec

\* The one step that can make the thresholds touch is a store's write.
LEMMA WriteKeepsValid ==
  ASSUME CallInv, StoreInv, NEW p \in Procs, SMI(p), Awake, Valid
  PROVE  Valid'
  <1> SUFFICES ASSUME missing = {}, pc[p] \in SetCalls
               PROVE  Valid'
    BY DEF SMI, Valid
  <1> DEFINE w == which[p]
             o == Other(w)
  <1>1. p \in Tasks /\ pc[p] \in {"set_other", "set_this"} /\ thresh[p] \in ThreshRange(w)
    BY DEF CallInv, RoleInv, RangeInv, Procs, Awake, SetCalls, StoreCalls
  <1>2. /\ w \in Which /\ o \in Which /\ o # w
        /\ hw \in [Which -> 0 .. 99] /\ hw[w] \in 0 .. 99 /\ hw[o] \in 0 .. 99
    BY OtherType DEF CallInv, TypeOK
  <1>3. /\ thresh[p] \in 0 .. 100 /\ other[p] \in 0 .. 100
        /\ Shown(w, hw[w]) \in 0 .. 100 /\ Shown(o, hw[o]) \in 0 .. 100
    BY <1>2, ShownType DEF CallInv, TypeOK
  <1>4. Apart(w, Shown(w, hw[w]), Shown(o, hw[o]))
    BY <1>2, ValidApart
  <1>5. hw' = hw \/ hw' = [hw EXCEPT ![Target(p)] = Written(p)]
    BY DEF SMI, GetCalls, SetCalls
  <1>6. StoreKnows(p) /\ code[p] = "none"
    BY <1>1 DEF StoreInv, SMI
  <1>7. CASE hw' = hw
    BY <1>7 DEF Valid, SMI
  <1>8. CASE pc[p] = "set_other" /\ hw' = [hw EXCEPT ![Target(p)] = Written(p)]
    <2>1. hw' = [hw EXCEPT ![o] = Real(o, MovedTo(w, thresh[p]))]
      BY <1>8 DEF Target, Written
    <2>2. Shown(o, hw'[o]) = MovedTo(w, thresh[p]) /\ hw'[w] = hw[w]
      BY <1>1, <1>2, <2>1, MovedApart, ShownReal
    <2>3. TooClose(w, thresh[p], Shown(o, hw[o]))
      BY <1>6, <1>8 DEF StoreKnows, OtherShown, Done
    <2>4. Apart(w, Shown(w, hw'[w]), Shown(o, hw'[o]))
      BY <1>2, <1>3, <1>4, <2>2, <2>3, MovesAway
    <2>5. QED
      BY <1>2, <2>4 DEF Valid, Apart, Which, Other
  <1>9. CASE pc[p] = "set_this" /\ hw' = [hw EXCEPT ![Target(p)] = Written(p)]
    <2>1. hw' = [hw EXCEPT ![w] = Real(w, thresh[p])]
      BY <1>9 DEF Target, Written
    <2>2. Shown(w, hw'[w]) = thresh[p] /\ hw'[o] = hw[o]
      BY <1>1, <1>2, <2>1, ShownReal
    <2>3. Apart(w, Shown(w, hw'[w]), Shown(o, hw'[o]))
      BY <1>6, <1>9, <2>2 DEF StoreKnows, OtherShown
    <2>4. QED
      BY <1>2, <2>3 DEF Valid, Apart, Which, Other
  <1>10. QED
    BY <1>1, <1>5, <1>7, <1>8, <1>9

LEMMA StepKeepsValid ==
  CallInv /\ StoreInv /\ [Next]_vars => (Awake /\ Valid => Valid')
  <1> SUFFICES ASSUME CallInv, StoreInv, [Next]_vars, Awake, Valid
               PROVE  Valid'
    OBVIOUS
  <1>1. ASSUME NEW p \in Procs, SMI(p)
        PROVE  Valid'
    BY <1>1, WriteKeepsValid
  <1>2. CASE UNCHANGED <<hw, missing>>
    BY <1>2 DEF Valid
  <1>3. QED
    BY <1>1, <1>2
    DEF Next, Step, Interrupted, Wake, Show, Store, Lock, Unlock, Suspend, Unplug,
        Resume, ResumeThresh, Thaw, Awake, vars

(***************************************************************************)
(* No step of any number of stores, whichever of their calls fail, makes a *)
(* valid pair of thresholds invalid, with the same exception of 0x92 and   *)
(* 0xa2.                                                                   *)
(***************************************************************************)
THEOREM ValidKept ==
  ASSUME BiosCodes \cap {"c0x92", "c0xa2"} = {}
  PROVE  Spec => StoresKeepValid
  <1>1. CallInv /\ StoreInv /\ [Next]_vars => StoreInv'
    BY StoreStep
  <1>2. CallInv /\ StoreInv /\ [Next]_vars => [Awake /\ Valid => Valid']_vars
    BY StepKeepsValid
  <1>3. QED
    BY <1>1, <1>2, StoreInit, Calling, PTL DEF Spec, StoresKeepValid

-----------------------------------------------------------------------------
(* Suspend and resume.                                                     *)

\* What becomes of a threshold that no call failed on: it was saved, or was
\* never forgotten.
Remembered(w) == saved[w] = before[w] \/ (saved[w] = -1 /\ hw[w] = before[w])

\* The thresholds are restored one after the other, STOP first.
SleepInv ==
  /\ pc[PM] \in {"save", "asleep"} => hw = before
  /\ ~Awake => \A w \in Which \ failed : Remembered(w)
  /\ pc[PM] = "save" /\ Done(PM) /\ ecx[PM] # Unset => ecx[PM] = hw[which[PM]]
  /\ pc[PM] = "restore" /\ Done(PM) => hw[which[PM]] = saved[which[PM]]
  /\ pc[PM] \in {"resume", "verify_saved", "restore"} /\ which[PM] = "START"
       /\ "STOP" \notin failed => hw["STOP"] = before["STOP"]
  /\ ResumeRestores

LEMMA SleepInit == Init => SleepInv
  BY DEF Init, SleepInv, Awake, Procs, ResumeRestores

\* While the system is not awake only the PM callbacks make calls.
LEMMA OnlyPM ==
  ASSUME CallInv, NEW p \in Procs, pc[p] \in Calls \cup {"unlock", "down"}, ~Awake
  PROVE  p = PM
  BY DEF CallInv, RoleInv, Procs, Calls, GetCalls, SetCalls

LEMMA SleepSMI ==
  ASSUME CallInv, SleepInv, NEW p \in Procs, SMI(p)
  PROVE  SleepInv'
  <1>1. UNCHANGED <<missing, pc, which, saved, before, failed>>
    BY DEF SMI, pmVars
  <1>2. CASE Awake
    BY <1>1, <1>2 DEF Awake, SleepInv, ResumeRestores
  <1>3. CASE ~Awake
    <2>1. p = PM /\ pc[PM] \in {"save", "verify_saved", "restore"}
      BY <1>3, OnlyPM DEF SMI, Calls, CallInv, RoleInv, PMPlaces, GetCalls, SetCalls
    <2>2. /\ which[PM] \in Which /\ hw \in [Which -> 0 .. 99]
          /\ saved \in [Which -> -1 .. 99] /\ before \in [Which -> 0 .. 99]
      BY <2>1 DEF CallInv, TypeOK
    <2>3. code[PM] = "none" /\ code' \in [Procs -> {"none"} \cup DOMAIN smapi_retcode]
      BY <2>1, CallSMI DEF SMI, CallInv, TypeOK
    <2>4. CASE pc[PM] \in {"save", "verify_saved"}
      <3>1. UNCHANGED hw
        BY <2>1, <2>4 DEF SMI, GetCalls, SetCalls
      <3>2. pc[PM] = "save" /\ code'[PM] = "c0x00" /\ ecx'[PM] # Unset
              => ecx'[PM] = hw[which[PM]]
        BY <2>1, <2>4 DEF SMI, Taken, Target, GetCalls, SetCalls, CallInv, TypeOK
      <3>3. QED
        BY <1>1, <2>4, <3>1, <3>2
        DEF SleepInv, Remembered, ResumeRestores, Awake, Done
    <2>5. CASE pc[PM] = "restore"
      <3>1. /\ Target(PM) = which[PM] /\ Written(PM) = saved[which[PM]]
            /\ saved[which[PM]] >= 0
        BY <2>5 DEF Target, Written, CallInv, RangeInv
      <3>2. /\ code'[PM] = "c0x00" => hw' = [hw EXCEPT ![which[PM]] = saved[which[PM]]]
            /\ code'[PM] # "c0x00" => hw' = hw
        BY <2>1, <2>5, <3>1 DEF SMI, GetCalls, SetCalls, CallInv, TypeOK
      <3>3. \A w \in Which \ failed : Remembered(w)'
        BY <1>1, <1>3, <2>2, <3>1, <3>2 DEF SleepInv, Remembered
      <3>4. which[PM] = "START" /\ "STOP" \notin failed => hw'["STOP"] = before["STOP"]
        BY <2>2, <2>5, <3>2 DEF SleepInv, Which
      <3>5. code'[PM] = "c0x00" => hw'[which[PM]] = saved[which[PM]]
        BY <2>2, <3>2
      <3>6. QED
        BY <1>1, <2>5, <3>3, <3>4, <3>5 DEF SleepInv, ResumeRestores, Awake, Done
    <2>6. QED
      BY <2>1, <2>4, <2>5
  <1>4. QED
    BY <1>2, <1>3

LEMMA SleepReturn ==
  ASSUME CallInv, SleepInv, NEW p \in Procs, NEW r, Answered(p, r),
         r = "ok" => Done(p)
  PROVE  SleepInv'
  <1>1. UNCHANGED <<hw, missing>> /\ code' = [code EXCEPT ![p] = "none"]
    BY DEF Answered
  <1>2. CASE p \in Tasks
    <2>1. Awake
      BY <1>2, OnlyPM, ProcsAssumption DEF Answered
    <2>2. pc'[PM] = pc[PM]
      <3>1. CASE ShowReturns(p)
        BY <1>2, <3>1, ProcsAssumption DEF ShowReturns, CallInv, TypeOK, Procs
      <3>2. CASE pc[p] \in StoreCalls /\ StoreContinues(p, r)
        BY <1>2, <3>2, StoreGoes, ProcsAssumption DEF CallInv, TypeOK, Procs
      <3>3. QED
        BY <1>2, <3>1, <3>2 DEF Answered, Returns, CallInv, RoleInv, StoreCalls
    <2>3. QED
      BY <2>1, <2>2 DEF Awake, SleepInv, ResumeRestores
  <1>3. CASE p = PM
    <2>1. \/ pc[PM] = "save" /\ Saves(PM, r)
          \/ pc[PM] \in {"verify_saved", "restore"} /\ Restores(PM, r)
      BY <1>3, ProcsAssumption
      DEF Answered, Returns, CallInv, RoleInv, PMPlaces, StoreCalls, Calls, GetCalls,
          SetCalls
    <2>2. /\ which[PM] \in Which /\ hw \in [Which -> 0 .. 99]
          /\ saved \in [Which -> -1 .. 99] /\ before \in [Which -> 0 .. 99]
          /\ failed \subseteq Which
          /\ code'[PM] = "none" /\ ~Awake /\ PM \in Procs
      BY <1>1, <1>3, <2>1 DEF CallInv, TypeOK, Awake
    <2>3. /\ pc' = [pc EXCEPT ![PM] = pc'[PM]]
          /\ which' = [which EXCEPT ![PM] = which'[PM]]
          /\ pc'[PM] \in PMPlaces \ {"out"}
      BY <2>1, PMGoes
    <2>4. ~Done(PM)'
      BY <2>2 DEF Done
    <2>5. CASE pc[PM] = "save" /\ Saves(PM, r)
      <3>1. /\ pc'[PM] \in {"save", "hibernated"}
            /\ saved' = [saved EXCEPT ![which[PM]] = IF r = "ok" THEN ecx[PM] ELSE -1]
            /\ failed' = IF r = "ok" THEN failed ELSE failed \cup {which[PM]}
            /\ before' = before
        BY <2>2, <2>5 DEF Saves, NextThresh, CallInv, TypeOK
      <3>2. hw = before /\ \A v \in Which \ failed : Remembered(v)
        BY <2>2, <2>5 DEF SleepInv
      <3>3. r = "ok" => ecx[PM] = before[which[PM]]
        BY <1>3, <2>5, <3>2 DEF SleepInv, Answered, GetCalls
      <3>4. \A v \in Which \ failed' : Remembered(v)'
        BY <1>1, <2>2, <3>1, <3>2, <3>3 DEF Remembered
      <3>5. QED
        BY <1>1, <2>4, <3>1, <3>2, <3>4 DEF SleepInv, ResumeRestores
    <2>6. CASE pc[PM] = "verify_saved" /\ r = "ok" /\ Restores(PM, r)
      <3>1. pc'[PM] = "restore" /\ UNCHANGED <<which, failed, saved, before>>
        BY <2>2, <2>6 DEF Restores, CallInv, TypeOK
      <3>2. QED
        BY <1>1, <2>2, <2>4, <2>6, <3>1
        DEF SleepInv, Remembered, ResumeRestores
    <2>7. CASE (pc[PM] = "restore" \/ (pc[PM] = "verify_saved" /\ r # "ok"))
               /\ Restores(PM, r)
      <3>1. /\ pc'[PM] = IF which[PM] = "STOP" THEN "resume" ELSE "awake"
            /\ which'[PM] = IF which[PM] = "STOP" THEN "START" ELSE "STOP"
            /\ failed' = IF r = "ok" THEN failed ELSE failed \cup {which[PM]}
            /\ UNCHANGED <<saved, before>>
        BY <2>2, <2>7 DEF Restores, NextThresh, CallInv, TypeOK
      <3>2. \A v \in Which \ failed' : Remembered(v) /\ Remembered(v)'
        BY <1>1, <2>2, <3>1 DEF SleepInv, Remembered
      <3>3. which[PM] \notin failed' => hw[which[PM]] = before[which[PM]]
        <4> SUFFICES ASSUME which[PM] \notin failed'
                     PROVE  hw[which[PM]] = before[which[PM]]
          OBVIOUS
        <4>1. r = "ok" /\ pc[PM] = "restore"
          BY <2>7, <3>1
        <4>2. hw[which[PM]] = saved[which[PM]] /\ saved[which[PM]] >= 0
          BY <1>3, <4>1 DEF SleepInv, CallInv, RangeInv
        <4>3. Remembered(which[PM])
          BY <2>2, <3>2
        <4>4. QED
          BY <2>2, <4>2, <4>3 DEF Remembered
      <3>4. which[PM] = "START" /\ "STOP" \notin failed' => hw["STOP"] = before["STOP"]
        BY <2>7, <3>1 DEF SleepInv
      <3>5. QED
        BY <1>1, <2>2, <2>4, <3>1, <3>2, <3>3, <3>4
        DEF SleepInv, ResumeRestores, Which
    <2>8. QED
      BY <2>1, <2>5, <2>6, <2>7
  <1>4. QED
    BY <1>2, <1>3 DEF Procs

LEMMA SleepStep ==
  ASSUME "c0x92" \notin BiosCodes
  PROVE  CallInv /\ SleepInv /\ [Next]_vars => SleepInv'
  <1> SUFFICES ASSUME CallInv, SleepInv, [Next]_vars
               PROVE  SleepInv'
    OBVIOUS
  <1>1. ASSUME NEW p \in Procs, SMI(p)
        PROVE  SleepInv'
    BY <1>1, SleepSMI
  <1>2. ASSUME NEW p \in Procs, Interrupted(p)
        PROVE  SleepInv'
    BY <1>2, InterruptedAnswered, SleepReturn
  <1>3. ASSUME NEW p \in Procs, Wake(p)
        PROVE  SleepInv'
    <2>1. CASE /\ code' = [code EXCEPT ![p] = "none"]
               /\ UNCHANGED <<hw, pc, which, ecx, saved, before, failed>>
      <3>1. Done(PM)' => Done(PM)
        BY <2>1 DEF Done, CallInv, TypeOK, Procs
      <3>2. QED
        BY <2>1, <3>1 DEF SleepInv, Remembered, ResumeRestores, Awake
    <2>2. ASSUME NEW r, Answered(p, r), r = "ok" => code[p] \in {"c0x00", "c0x92"},
                 r \in NoSuchThresh => smapi_retcode[code[p]] \in NoSuchThresh
          PROVE  SleepInv'
      <3>1. code[p] # "none"
        BY <1>3 DEF Wake
      <3>2. QED
        BY <2>2, <3>1, HonestAnswer, SleepReturn
    <2>3. QED
      BY <1>3, <2>1, <2>2, WakeAnswered
  <1> USE ProcsAssumption
      DEF SleepInv, Remembered, ResumeRestores, Done, Awake, callVars, pmVars,
          CallInv, TypeOK, RoleInv, RangeInv, Procs
  <1>4. ASSUME NEW t \in Tasks, NEW w \in Which,
               Show(t, w) \/ \E v \in Requests : Store(t, w, v)
        PROVE  SleepInv'
    BY <1>4 DEF Show, Store
  <1>5. ASSUME NEW t \in Tasks, Lock(t) \/ Unlock(t)
        PROVE  SleepInv'
    <2>1. Awake /\ pc'[PM] = pc[PM]
      BY <1>5 DEF Lock, Unlock
    <2>2. QED
      BY <2>1
  <1>6. ASSUME NEW disk \in BOOLEAN, Suspend(disk)
        PROVE  SleepInv'
    <2>1. /\ hw' = hw /\ before' = hw /\ code' = code
          /\ \A w \in Which : saved'[w] = -1
          /\ pc'[PM] \in {"save", "asleep"}
      BY <1>6 DEF Suspend
    <2>2. code[PM] = "none"
      BY <1>6 DEF Suspend, Calls, GetCalls, SetCalls
    <2>3. QED
      BY <2>1, <2>2
  <1>7. CASE Unplug
    BY <1>7 DEF Unplug
  <1>8. CASE Resume
    BY <1>8 DEF Resume
  <1>9. CASE ResumeThresh
    <2>1. UNCHANGED <<hw, code, ecx, saved, before, failed>>
      BY <1>9 DEF ResumeThresh
    <2>2. code[PM] = "none"
      BY <1>9 DEF ResumeThresh, Calls, GetCalls, SetCalls
    <2>3. CASE pc'[PM] = "verify_saved" /\ which' = which
      BY <1>9, <2>1, <2>2, <2>3 DEF ResumeThresh
    <2>4. CASE saved[which[PM]] < 0 /\ NextThresh(PM, "resume", "awake")
      <3>1. /\ pc'[PM] = IF which[PM] = "STOP" THEN "resume" ELSE "awake"
            /\ which'[PM] = IF which[PM] = "STOP" THEN "START" ELSE "STOP"
        BY <2>4 DEF NextThresh
      <3>2. which[PM] \notin failed => hw[which[PM]] = before[which[PM]]
        BY <1>9, <2>4 DEF ResumeThresh
      <3>3. QED
        BY <1>9, <2>1, <2>2, <3>1, <3>2 DEF ResumeThresh, Which
    <2>5. QED
      BY <1>9, <2>3, <2>4 DEF ResumeThresh
  <1>10. CASE Thaw
    BY <1>10 DEF Thaw
  <1>11. CASE UNCHANGED vars
    BY <1>11 DEF vars
  <1>12. QED
    BY <1>1, <1>2, <1>3, <1>4, <1>5, <1>6, <1>7, <1>8, <1>9, <1>10, <1>11
    DEF Next, Step

(***************************************************************************)
(* After a resume a threshold that no call failed on is what it was when   *)
(* the system was suspended, also when the EC forgot it in between.        *)
(***************************************************************************)
THEOREM Restored ==
  ASSUME "c0x92" \notin BiosCodes
  PROVE  Spec => []ResumeRestores
  <1>1. CallInv /\ SleepInv /\ [Next]_vars => SleepInv'
    BY SleepStep
  <1>2. SleepInv => ResumeRestores
    BY DEF SleepInv
  <1>3. QED
    BY <1>1, <1>2, SleepInit, Calling, PTL DEF Spec

=============================================================================
