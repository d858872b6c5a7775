------------------------------ MODULE HdapsPoll -----------------------------
(***************************************************************************)
(* The polling side of src/tp_smapi/hdaps.c: the timer that feeds the      *)
(* joystick while someone has it open, the users that open and close it,   *)
(* readers of the sysfs attributes, suspend and resume, and the prefetched *)
(* accelerometer row that makes a poll in softirq context possible.        *)
(*                                                                         *)
(* The row functions are used as EcRowServer specifies them: atomic under  *)
(* the EC semaphore.  What they leave in the mailbox matters here, because *)
(* a poll does not retry.  Time passes in jiffies; HZ is scaled down, and  *)
(* TPC_PREFETCH_TIMEOUT with it.                                           *)
(***************************************************************************)
EXTENDS Naturals, FiniteSets

CONSTANTS
  Tasks,   \* processes that use the input devices and the attributes
  Poll,    \* the timer's softirq, as a holder of the EC semaphore
  Nobody,  \* a free semaphore or mutex
  HZ,      \* jiffies per second
  Rates    \* the sampling rates written to sysfs

TPC_PREFETCH_TIMEOUT == HZ \div 10

ASSUME PollAssumption ==
  /\ Poll \notin Tasks /\ Nobody \notin Tasks \cup {Poll}
  /\ HZ \in Nat /\ HZ \div 10 > 0
  /\ Rates \subseteq 1 .. HZ

VARIABLES
  pc,         \* what each task is doing
  opened,     \* the tasks that have an input device open
  users,      \* hdaps_users
  mtx,        \* holder of hdaps_users_mtx
  sem,        \* holder of thinkpad_ec_mutex
  pending,    \* hdaps_timer is queued
  left,       \* ... to expire in that many jiffies
  handler,    \* where hdaps_mousedev_poll is
  result,     \* what __hdaps_update returned to it
  sampling_rate,
  stale_readout,
  prefetched, \* the accelerometer row is recorded as prefetched
  age,        \* jiffies since, up to the timeout
  mail,       \* the EC's mailbox: "idle" or "full" with an unread answer
  awake,      \* the system is not suspended
  disabled    \* polling was given up after an error

taskVars == <<pc, opened, users, mtx>>
timerVars == <<pending, left, handler, result>>
ecVars == <<prefetched, age, mail>>
vars == <<pc, opened, users, mtx, sem, pending, left, handler, result,
          sampling_rate, stale_readout, prefetched, age, mail, awake, disabled>>

Period == HZ \div sampling_rate

Init ==
  /\ pc = [t \in Tasks |-> "out"]
  /\ opened = {}
  /\ users = 0
  /\ mtx = Nobody
  /\ sem = Nobody
  /\ pending = FALSE /\ left = 0
  /\ handler = "off" /\ result = "none"
  /\ sampling_rate \in Rates
  /\ stale_readout = TRUE
  /\ prefetched = TRUE /\ age = 0 /\ mail = "full"
  /\ awake = TRUE
  /\ disabled = FALSE

-----------------------------------------------------------------------------
(* The row functions.                                                      *)

IsRowFetched == prefetched /\ age < TPC_PREFETCH_TIMEOUT

\* thinkpad_ec_prefetch_row on a mailbox in state m: an unread answer is
\* drained and costs the request.
Prefetch(m) ==
  IF m = "full"
  THEN /\ mail' = "idle"
       /\ prefetched' = FALSE
       /\ UNCHANGED age
  ELSE /\ mail' = "full"
       /\ prefetched' = TRUE
       /\ age' = 0

\* thinkpad_ec_read_row of some row: read, and forget the prefetch.
ReadAndForget ==
  /\ mail' = "idle"
  /\ prefetched' = FALSE
  /\ UNCHANGED age

-----------------------------------------------------------------------------
(* The timer.                                                              *)

Arm ==
  /\ pending' = TRUE
  /\ left' = Period

\* Mutant: a poll that cannot have the semaphore does not come again.
PollFiresOnce ==
  /\ pending /\ left = 0 /\ handler = "off"
  /\ pending' = FALSE
  /\ stale_readout' = TRUE
  /\ \/ sem = Nobody /\ sem' = Poll /\ handler' = "update"
     \/ sem # Nobody /\ UNCHANGED <<sem, handler>>
  /\ UNCHANGED <<taskVars, left, result, sampling_rate, ecVars, awake, disabled>>

\* hdaps_mousedev_poll starts: thinkpad_ec_try_lock or keep_active.
PollFires ==
  /\ pending /\ left = 0 /\ handler = "off"
  /\ pending' = FALSE
  /\ stale_readout' = TRUE
  /\ \/ sem = Nobody /\ sem' = Poll /\ handler' = "update"
     \/ sem # Nobody /\ handler' = "keep_active" /\ UNCHANGED sem
  /\ UNCHANGED <<taskVars, left, result, sampling_rate, ecVars, awake, disabled>>

\* Mutant: the next row is prefetched only after a row was read.
PollUpdatesIfFetched ==
  /\ handler = "update"
  /\ \/ /\ IsRowFetched
        /\ result' \in {"ok", "EBUSY", "EIO"}
        /\ Prefetch("idle")
     \/ /\ ~IsRowFetched
        /\ result' = "ENODATA"
        /\ UNCHANGED ecVars
  /\ stale_readout' = (result' # "ok")
  /\ handler' = "unlock"
  /\ UNCHANGED <<taskVars, sem, pending, left, sampling_rate, awake, disabled>>

\* __hdaps_update(1): a try read that succeeds may find that the sensor has
\* no readout yet (-EBUSY) or reports an error (-EIO); the next row is
\* prefetched in any case.
PollUpdates ==
  /\ handler = "update"
  /\ \/ /\ IsRowFetched
        /\ result' \in {"ok", "EBUSY", "EIO"}
        /\ Prefetch("idle")
     \/ /\ ~IsRowFetched
        /\ result' = "ENODATA"
        /\ Prefetch(mail)
  /\ stale_readout' = (result' # "ok")
  /\ handler' = "unlock"
  /\ UNCHANGED <<taskVars, sem, pending, left, sampling_rate, awake, disabled>>

\* "poll failed, disabling updates"
PollUnlocks ==
  /\ handler = "unlock"
  /\ sem' = Nobody
  /\ result' = "none"
  /\ handler' = IF result = "EIO" THEN "off" ELSE "keep_active"
  /\ disabled' = (result = "EIO")
  /\ UNCHANGED <<taskVars, pending, left, sampling_rate, stale_readout, ecVars,
                 awake>>

PollKeepsActive ==
  /\ handler = "keep_active"
  /\ Arm
  /\ handler' = "off"
  /\ UNCHANGED <<taskVars, sem, result, sampling_rate, stale_readout, ecVars,
                 awake, disabled>>

-----------------------------------------------------------------------------
(* Users of the input devices.                                             *)

\* hdaps_mousedev_open, which nothing can interrupt inside the mutex.
Open(t) ==
  /\ awake /\ pc[t] = "out" /\ t \notin opened /\ mtx = Nobody
  /\ opened' = opened \cup {t}
  /\ users' = users + 1
  /\ IF users = 0
     THEN Arm /\ disabled' = FALSE
     ELSE UNCHANGED <<pending, left, disabled>>
  /\ UNCHANGED <<pc, mtx, sem, handler, result, sampling_rate, stale_readout,
                 ecVars, awake>>

\* hdaps_mousedev_close: the last user waits in del_timer_sync.
Close(t) ==
  /\ awake /\ pc[t] = "out" /\ t \in opened /\ mtx = Nobody
  /\ opened' = opened \ {t}
  /\ users' = users - 1
  /\ IF users = 1
     THEN mtx' = t /\ pc' = [pc EXCEPT ![t] = "closing"]
     ELSE UNCHANGED <<mtx, pc>>
  /\ UNCHANGED <<sem, timerVars, sampling_rate, stale_readout, ecVars, awake,
                 disabled>>

\* Mutant: del_timer, which does not wait for the handler.
CloseDeletesTimer(t) ==
  /\ pc[t] = "closing"
  /\ pending' = FALSE
  /\ mtx' = Nobody
  /\ pc' = [pc EXCEPT ![t] = "out"]
  /\ UNCHANGED <<opened, users, sem, left, handler, result, sampling_rate,
                 stale_readout, ecVars, awake, disabled>>

\* del_timer_sync: the handler has ended, and the timer is off the queue.
CloseStopsTimer(t) ==
  /\ pc[t] = "closing"
  /\ handler = "off"
  /\ pending' = FALSE
  /\ mtx' = Nobody
  /\ pc' = [pc EXCEPT ![t] = "out"]
  /\ UNCHANGED <<opened, users, sem, left, handler, result, sampling_rate,
                 stale_readout, ecVars, awake, disabled>>

-----------------------------------------------------------------------------
(* Readers and writers of the sysfs attributes.                            *)

\* hdaps_update takes the EC semaphore; that the last readout is recent
\* enough, or a signal, sends it back at once.
ReadLocks(t) ==
  /\ awake /\ pc[t] \in {"out", "retry"} /\ sem = Nobody
  /\ sem' = t
  /\ pc' = [pc EXCEPT ![t] = "reading"]
  /\ UNCHANGED <<opened, users, mtx, timerVars, sampling_rate, stale_readout,
                 ecVars, awake, disabled>>

\* __hdaps_update(0) and the unlock: read_row reads whatever it takes, so
\* the prefetch starts from an idle mailbox.
ReadUpdates(t) ==
  /\ pc[t] = "reading"
  /\ Prefetch("idle")
  /\ \/ stale_readout' = FALSE /\ pc' = [pc EXCEPT ![t] = "out"]
     \/ \E next \in {"retry", "out"} :
          pc' = [pc EXCEPT ![t] = next] /\ UNCHANGED stale_readout
  /\ sem' = Nobody
  /\ UNCHANGED <<opened, users, mtx, timerVars, sampling_rate, awake, disabled>>

\* The retries of hdaps_update end after READ_TIMEOUT_MSECS.
ReadGivesUp(t) ==
  /\ pc[t] = "retry"
  /\ pc' = [pc EXCEPT ![t] = "out"]
  /\ UNCHANGED <<opened, users, mtx, sem, timerVars, sampling_rate,
                 stale_readout, ecVars, awake, disabled>>

\* hdaps_sampling_rate_store, taken as one step although it does not lock.
SetRate(rate) ==
  /\ awake /\ sem = Nobody
  /\ rate \in 1 .. HZ
  /\ sampling_rate' = rate
  /\ ReadAndForget
  /\ UNCHANGED <<taskVars, sem, timerVars, stale_readout, awake, disabled>>

\* Another driver reads a row of its own, under the semaphore.
OtherClient ==
  /\ awake /\ sem = Nobody
  /\ ReadAndForget
  /\ UNCHANGED <<taskVars, sem, timerVars, sampling_rate, stale_readout, awake,
                 disabled>>

-----------------------------------------------------------------------------
(* Power management and time.                                              *)

\* Mutant: the timer is left on the queue.
SuspendLeavingTimer ==
  /\ awake
  /\ \A t \in Tasks : pc[t] = "out"
  /\ handler = "off"
  /\ awake' = FALSE
  /\ ReadAndForget
  /\ UNCHANGED <<taskVars, sem, timerVars, sampling_rate, stale_readout, disabled>>

\* hdaps_suspend, with all tasks frozen outside the driver.
Suspend ==
  /\ awake
  /\ \A t \in Tasks : pc[t] = "out"
  /\ handler = "off"
  /\ awake' = FALSE
  /\ pending' = FALSE
  /\ ReadAndForget
  /\ UNCHANGED <<taskVars, sem, left, handler, result, sampling_rate,
                 stale_readout, disabled>>

\* hdaps_resume when hdaps_device_init succeeds: it ends with a prefetch.
Resume ==
  /\ ~awake
  /\ awake' = TRUE
  /\ stale_readout' = TRUE
  /\ Prefetch("idle")
  /\ disabled' = FALSE
  /\ IF users > 0 THEN Arm ELSE UNCHANGED <<pending, left>>
  /\ UNCHANGED <<taskVars, sem, handler, result, sampling_rate>>

\* ... and when it fails, at a request or already at the lock.
ResumeFails ==
  /\ ~awake
  /\ awake' = TRUE
  /\ \/ stale_readout' = TRUE /\ ReadAndForget
     \/ UNCHANGED <<stale_readout, ecVars>>
  /\ disabled' = TRUE
  /\ UNCHANGED <<taskVars, timerVars, sem, sampling_rate>>

\* Mutant: the age of the prefetched row runs on.
TickPastTimeout ==
  /\ awake /\ handler = "off"
  /\ pending => left > 0
  /\ left' = IF left > 0 THEN left - 1 ELSE 0
  /\ age' = age + 1
  /\ UNCHANGED <<taskVars, sem, pending, handler, result, sampling_rate,
                 stale_readout, prefetched, mail, awake, disabled>>

\* A jiffy passes.  The softirq runs in the jiffy its timer expires in, and
\* ends in it.
Tick ==
  /\ awake /\ handler = "off"
  /\ pending => left > 0
  /\ left' = IF left > 0 THEN left - 1 ELSE 0
  /\ age' = IF age < TPC_PREFETCH_TIMEOUT THEN age + 1 ELSE age
  /\ UNCHANGED <<taskVars, sem, pending, handler, result, sampling_rate,
                 stale_readout, prefetched, mail, awake, disabled>>

-----------------------------------------------------------------------------

PollStep == PollFires \/ PollUpdates \/ PollUnlocks \/ PollKeepsActive

Next ==
  \/ PollStep
  \/ \E t \in Tasks :
       \/ Open(t) \/ Close(t) \/ CloseStopsTimer(t)
       \/ ReadLocks(t) \/ ReadUpdates(t) \/ ReadGivesUp(t)
  \/ \E rate \in Rates : SetRate(rate)
  \/ OtherClient
  \/ Suspend \/ Resume \/ ResumeFails
  \/ Tick

Spec == Init /\ [][Next]_vars

\* Time passes, the softirq runs, and a system call that holds a lock ends.
\* A sensor that is read again and again has a readout now and then.
Fairness ==
  /\ WF_vars(Tick)
  /\ WF_vars(PollStep)
  /\ SF_vars(PollUpdates /\ result' = "ok")
  /\ \A t \in Tasks : WF_vars(ReadUpdates(t)) /\ WF_vars(CloseStopsTimer(t))

FairSpec == Spec /\ Fairness

-----------------------------------------------------------------------------

TypeOK ==
  /\ pc \in [Tasks -> {"out", "closing", "reading", "retry"}]
  /\ opened \subseteq Tasks
  /\ users \in 0 .. Cardinality(Tasks)
  /\ mtx \in Tasks \cup {Nobody}
  /\ sem \in Tasks \cup {Poll, Nobody}
  /\ pending \in BOOLEAN /\ left \in 0 .. HZ
  /\ handler \in {"off", "update", "unlock", "keep_active"}
  /\ result \in {"none", "ok", "EBUSY", "EIO", "ENODATA"}
  /\ sampling_rate \in 1 .. HZ
  /\ stale_readout \in BOOLEAN
  /\ prefetched \in BOOLEAN /\ age \in 0 .. TPC_PREFETCH_TIMEOUT
  /\ mail \in {"idle", "full"}
  /\ awake \in BOOLEAN /\ disabled \in BOOLEAN

TimerActive == pending \/ handler # "off"

(***************************************************************************)
(* While a device is open and the system awake the poll keeps itself       *)
(* going, through failed trylocks and missing data, across open, close,    *)
(* suspend and resume; only a reported error ends it.                      *)
(***************************************************************************)
UsersArePolled ==
  awake /\ mtx = Nobody /\ users > 0 /\ ~disabled => TimerActive

(***************************************************************************)
(* Once the last close has returned the timer neither runs nor can come    *)
(* back, although its handler re-arms itself without the mutex; the module *)
(* may then be unloaded.                                                   *)
(***************************************************************************)
NoPollWithoutUsers == mtx = Nobody /\ users = 0 => ~TimerActive

(***************************************************************************)
(* "Don't do hdaps polls until resume re-initializes the sensor."          *)
(***************************************************************************)
NoPollWhileSuspended == ~awake => ~TimerActive

StaysPolled ==
  /\ <>[](users > 0 /\ awake /\ ~disabled)
  /\ <>[][/\ ~OtherClient
          /\ \A r \in Rates : ~SetRate(r)
          /\ \A t \in Tasks : ~ReadLocks(t)]_vars

(***************************************************************************)
(* A device that stays open gets new positions again and again, when no    *)
(* other client keeps taking the EC away and the polls come often enough   *)
(* to find their prefetched row valid.                                     *)
(***************************************************************************)
PollsDeliver ==
  StaysPolled /\ <>[](Period < TPC_PREFETCH_TIMEOUT) => []<>(~stale_readout)

=============================================================================
