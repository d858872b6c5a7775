--------------------------- MODULE HdapsPoll_proofs -------------------------
(***************************************************************************)
(* The poll timer of HdapsPoll runs exactly when it should, for any number *)
(* of users and any rates: with users, and never without them or in a      *)
(* suspended system.                                                       *)
(***************************************************************************)
EXTENDS HdapsPoll, FiniteSetTheorems, TLAPS

\* Every step counts users right, and the mutex is held only by the last
\* close, which waits for the handler.
UsersInv ==
  /\ pc \in [Tasks -> {"out", "closing", "reading", "retry"}]
  /\ opened \subseteq Tasks
  /\ IsFiniteSet(opened)
  /\ users = Cardinality(opened)
  /\ \A t \in Tasks : pc[t] = "closing" <=> mtx = t
  /\ mtx = Nobody \/ mtx \in Tasks
  /\ mtx # Nobody => users = 0
  /\ ~awake => mtx = Nobody

HandlerInv ==
  /\ handler \in {"off", "update", "unlock", "keep_active"}
  /\ pending \in BOOLEAN /\ awake \in BOOLEAN /\ disabled \in BOOLEAN

PollInv ==
  /\ UsersInv /\ HandlerInv
  /\ UsersArePolled /\ NoPollWithoutUsers /\ NoPollWhileSuspended

\* Counting an open and a close.
LEMMA CountOpen ==
  ASSUME NEW t, IsFiniteSet(opened), t \notin opened
  PROVE  /\ IsFiniteSet(opened \cup {t})
         /\ Cardinality(opened \cup {t}) = Cardinality(opened) + 1
         /\ Cardinality(opened) \in Nat
  BY FS_AddElement, FS_CardinalityType

LEMMA CountClose ==
  ASSUME NEW t, IsFiniteSet(opened), t \in opened
  PROVE  /\ IsFiniteSet(opened \ {t})
         /\ Cardinality(opened \ {t}) = Cardinality(opened) - 1
         /\ Cardinality(opened) \in Nat \ {0}
  <1>1. /\ IsFiniteSet(opened \ {t})
        /\ Cardinality(opened \ {t}) = Cardinality(opened) - 1
    BY FS_RemoveElement
  <1>2. Cardinality(opened) \in Nat /\ Cardinality(opened \ {t}) \in Nat
    BY <1>1, FS_CardinalityType
  <1>3. QED
    BY <1>1, <1>2

LEMMA PollInit == Init => PollInv
  <1> SUFFICES ASSUME Init
               PROVE  PollInv
    OBVIOUS
  <1> USE DEF Init
  <1>1. IsFiniteSet(opened) /\ users = Cardinality(opened)
    BY FS_EmptySet
  <1>2. pc \in [Tasks -> {"out", "closing", "reading", "retry"}]
    OBVIOUS
  <1>3. \A t \in Tasks : pc[t] = "closing" <=> mtx = t
    BY PollAssumption
  <1>4. UsersInv
    BY <1>1, <1>2, <1>3 DEF UsersInv
  <1>5. HandlerInv
    BY DEF HandlerInv
  <1>6. UsersArePolled /\ NoPollWithoutUsers /\ NoPollWhileSuspended
    BY DEF UsersArePolled, NoPollWithoutUsers, NoPollWhileSuspended, TimerActive
  <1>7. QED
    BY <1>4, <1>5, <1>6 DEF PollInv

LEMMA PollStepKeeps == PollInv /\ [Next]_vars => PollInv'
  <1> SUFFICES ASSUME PollInv, [Next]_vars
               PROVE  PollInv'
    OBVIOUS
  <1> USE PollAssumption
          DEF PollInv, UsersInv, HandlerInv, UsersArePolled, NoPollWithoutUsers,
              NoPollWhileSuspended, TimerActive, taskVars, timerVars, ecVars
  <1>0. Cardinality(opened) \in Nat
    BY FS_CardinalityType
  <1>1. CASE PollFires
    BY <1>1 DEF PollFires
  <1>2. CASE PollUpdates
    BY <1>2 DEF PollUpdates
  <1>3. CASE PollUnlocks
    BY <1>3 DEF PollUnlocks
  <1>4. CASE PollKeepsActive
    BY <1>4 DEF PollKeepsActive, Arm
  <1>5. ASSUME NEW t \in Tasks, Open(t)
        PROVE  PollInv'
    <2>1. /\ IsFiniteSet(opened \cup {t})
          /\ Cardinality(opened \cup {t}) = users + 1
      BY <1>5, CountOpen DEF Open
    <2>2. UsersInv'
      BY <1>0, <1>5, <2>1 DEF Open
    <2>3. HandlerInv'
      BY <1>5 DEF Open, Arm
    <2>4. UsersArePolled' /\ NoPollWithoutUsers' /\ NoPollWhileSuspended'
      BY <1>0, <1>5 DEF Open, Arm
    <2>5. QED
      BY <2>2, <2>3, <2>4
  <1>6. ASSUME NEW t \in Tasks, Close(t)
        PROVE  PollInv'
    <2>1. /\ IsFiniteSet(opened \ {t})
          /\ Cardinality(opened \ {t}) = users - 1
          /\ users \in Nat \ {0}
      BY <1>6, CountClose DEF Close
    <2>2. UsersInv'
      <3>1. CASE users = 1
        BY <1>6, <2>1, <3>1 DEF Close
      <3>2. CASE users # 1
        BY <1>6, <2>1, <3>2 DEF Close
      <3>3. QED
        BY <3>1, <3>2
    <2>3. HandlerInv'
      BY <1>6 DEF Close
    <2>4. UsersArePolled' /\ NoPollWithoutUsers' /\ NoPollWhileSuspended'
      BY <1>6, <2>1 DEF Close
    <2>5. QED
      BY <2>2, <2>3, <2>4
  <1>7. ASSUME NEW t \in Tasks, CloseStopsTimer(t)
        PROVE  PollInv'
    <2>1. /\ mtx = t /\ users = 0 /\ awake
          /\ mtx' = Nobody /\ ~pending' /\ handler' = "off"
          /\ UNCHANGED <<opened, users, awake, disabled>>
      BY <1>7 DEF CloseStopsTimer
    <2>2. /\ pc' \in [Tasks -> {"out", "closing", "reading", "retry"}]
          /\ \A u \in Tasks : pc'[u] # "closing"
      BY <1>7, <2>1 DEF CloseStopsTimer
    <2>3. UsersInv'
      BY <2>1, <2>2
    <2>4. HandlerInv'
      BY <1>7, <2>1 DEF CloseStopsTimer
    <2>5. UsersArePolled' /\ NoPollWithoutUsers' /\ NoPollWhileSuspended'
      BY <2>1
    <2>6. QED
      BY <2>3, <2>4, <2>5
  <1>8. ASSUME NEW t \in Tasks, ReadLocks(t) \/ ReadUpdates(t) \/ ReadGivesUp(t)
        PROVE  PollInv'
    <2>1. /\ UNCHANGED <<opened, users, mtx, pending, handler, awake, disabled>>
          /\ pc' \in [Tasks -> {"out", "closing", "reading", "retry"}]
          /\ \A u \in Tasks : pc'[u] = "closing" <=> pc[u] = "closing"
      BY <1>8 DEF ReadLocks, ReadUpdates, ReadGivesUp
    <2>2. QED
      BY <2>1
  <1>9. ASSUME NEW rate \in Rates, SetRate(rate)
        PROVE  PollInv'
    BY <1>9 DEF SetRate
  <1>10. CASE OtherClient
    BY <1>10 DEF OtherClient
  <1>11. CASE Suspend
    <2>1. UsersInv'
      <3>1. \A t \in Tasks : mtx # t
        BY <1>11 DEF Suspend
      <3>2. mtx = Nobody
        BY <3>1
      <3>3. QED
        BY <1>11, <3>2 DEF Suspend
    <2>2. HandlerInv'
      BY <1>11 DEF Suspend
    <2>3. UsersArePolled' /\ NoPollWithoutUsers' /\ NoPollWhileSuspended'
      BY <1>11 DEF Suspend
    <2>4. QED
      BY <2>1, <2>2, <2>3
  <1>12. CASE Resume
    <2>1. UsersInv'
      BY <1>12 DEF Resume
    <2>2. HandlerInv'
      BY <1>12 DEF Resume, Arm
    <2>3. users \in Nat
      BY <1>0
    <2>4. UsersArePolled' /\ NoPollWithoutUsers' /\ NoPollWhileSuspended'
      <3>1. CASE users > 0
        BY <1>12, <2>3, <3>1 DEF Resume, Arm
      <3>2. CASE users = 0
        BY <1>12, <3>2 DEF Resume
      <3>3. QED
        BY <2>3, <3>1, <3>2
    <2>5. QED
      BY <2>1, <2>2, <2>4
  <1>13. CASE ResumeFails
    BY <1>13 DEF ResumeFails
  <1>14. CASE Tick
    BY <1>14 DEF Tick
  <1>15. CASE UNCHANGED vars
    BY <1>15 DEF vars
  <1>16. QED
    BY <1>1, <1>2, <1>3, <1>4, <1>5, <1>6, <1>7, <1>8, <1>9, <1>10, <1>11,
       <1>12, <1>13, <1>14, <1>15
    DEF Next, PollStep

(***************************************************************************)
(* While a device is open, awake and not given up, the poll never dies.    *)
(***************************************************************************)
THEOREM UsersPolled == Spec => []UsersArePolled
  <1>1. PollInv => UsersArePolled
    BY DEF PollInv
  <1>2. QED
    BY PollInit, PollStepKeeps, <1>1, PTL DEF Spec

(***************************************************************************)
(* After the last close the timer is gone and cannot come back.            *)
(***************************************************************************)
THEOREM UnusedNotPolled == Spec => []NoPollWithoutUsers
  <1>1. PollInv => NoPollWithoutUsers
    BY DEF PollInv
  <1>2. QED
    BY PollInit, PollStepKeeps, <1>1, PTL DEF Spec

(***************************************************************************)
(* A suspended system is not polled.                                       *)
(***************************************************************************)
THEOREM SuspendedNotPolled == Spec => []NoPollWhileSuspended
  <1>1. PollInv => NoPollWhileSuspended
    BY DEF PollInv
  <1>2. QED
    BY PollInit, PollStepKeeps, <1>1, PTL DEF Spec
-----------------------------------------------------------------------------
(* The other variables.                                                    *)

LEMMA PeriodRange ==
  ASSUME sampling_rate \in 1 .. HZ
  PROVE  Period \in 0 .. HZ
  BY PollAssumption DEF Period

TimingInv ==
  /\ sem \in Tasks \cup {Poll, Nobody}
  /\ left \in 0 .. HZ
  /\ result \in {"none", "ok", "EBUSY", "EIO", "ENODATA"}
  /\ sampling_rate \in 1 .. HZ
  /\ stale_readout \in BOOLEAN
  /\ prefetched \in BOOLEAN /\ age \in 0 .. TPC_PREFETCH_TIMEOUT
  /\ mail \in {"idle", "full"}

LEMMA TimingInit == Init => TimingInv
  <1>1. TPC_PREFETCH_TIMEOUT \in Nat
    BY PollAssumption DEF TPC_PREFETCH_TIMEOUT
  <1>2. ASSUME Init
        PROVE  left \in 0 .. HZ /\ age \in 0 .. TPC_PREFETCH_TIMEOUT
    BY <1>1, <1>2, PollAssumption DEF Init
  <1>3. ASSUME Init
        PROVE  sampling_rate \in 1 .. HZ
    BY <1>3, PollAssumption DEF Init
  <1>4. QED
    BY <1>2, <1>3 DEF Init, TimingInv

LEMMA PrefetchKeeps ==
  ASSUME TimingInv, NEW m, Prefetch(m)
  PROVE  /\ prefetched' \in BOOLEAN /\ age' \in 0 .. TPC_PREFETCH_TIMEOUT
         /\ mail' \in {"idle", "full"}
  <1>1. TPC_PREFETCH_TIMEOUT \in Nat
    BY PollAssumption DEF TPC_PREFETCH_TIMEOUT
  <1>2. CASE m = "full"
    BY <1>2 DEF TimingInv, Prefetch
  <1>3. CASE m # "full"
    BY <1>1, <1>3 DEF TimingInv, Prefetch
  <1>4. QED
    BY <1>2, <1>3

LEMMA TimingStepKeeps == TimingInv /\ [Next]_vars => TimingInv'
  <1> SUFFICES ASSUME TimingInv, [Next]_vars
               PROVE  TimingInv'
    OBVIOUS
  <1> USE DEF TimingInv, taskVars, timerVars, ecVars, ReadAndForget
  <1>0. Period \in 0 .. HZ /\ TPC_PREFETCH_TIMEOUT \in Nat
    BY PeriodRange, PollAssumption DEF TPC_PREFETCH_TIMEOUT
  <1>1. CASE PollFires
    BY <1>1 DEF PollFires
  <1>2. CASE PollUpdates
    <2>1. /\ prefetched' \in BOOLEAN /\ age' \in 0 .. TPC_PREFETCH_TIMEOUT
          /\ mail' \in {"idle", "full"}
      BY <1>2, PrefetchKeeps DEF PollUpdates
    <2>2. QED
      BY <1>2, <2>1 DEF PollUpdates
  <1>3. CASE PollUnlocks
    BY <1>3 DEF PollUnlocks
  <1>4. CASE PollKeepsActive
    BY <1>0, <1>4 DEF PollKeepsActive, Arm
  <1>5. ASSUME NEW t \in Tasks, Open(t)
        PROVE  TimingInv'
    BY <1>0, <1>5 DEF Open, Arm
  <1>6. ASSUME NEW t \in Tasks, Close(t) \/ CloseStopsTimer(t)
        PROVE  TimingInv'
    BY <1>6 DEF Close, CloseStopsTimer
  <1>7. ASSUME NEW t \in Tasks, ReadLocks(t) \/ ReadGivesUp(t)
        PROVE  TimingInv'
    BY <1>7 DEF ReadLocks, ReadGivesUp
  <1>8. ASSUME NEW t \in Tasks, ReadUpdates(t)
        PROVE  TimingInv'
    <2>1. /\ prefetched' \in BOOLEAN /\ age' \in 0 .. TPC_PREFETCH_TIMEOUT
          /\ mail' \in {"idle", "full"}
      BY <1>8, PrefetchKeeps DEF ReadUpdates
    <2>2. stale_readout' \in BOOLEAN /\ sem' = Nobody
      BY <1>8 DEF ReadUpdates
    <2>3. QED
      BY <1>8, <2>1, <2>2 DEF ReadUpdates
  <1>9. ASSUME NEW rate \in Rates, SetRate(rate)
        PROVE  TimingInv'
    BY <1>9 DEF SetRate
  <1>10. CASE OtherClient \/ Suspend
    BY <1>10 DEF OtherClient, Suspend
  <1>11. CASE Resume
    <2>1. /\ prefetched' \in BOOLEAN /\ age' \in 0 .. TPC_PREFETCH_TIMEOUT
          /\ mail' \in {"idle", "full"}
      BY <1>11, PrefetchKeeps DEF Resume
    <2>2. left' \in 0 .. HZ
      BY <1>0, <1>11 DEF Resume, Arm
    <2>3. QED
      BY <1>11, <2>1, <2>2 DEF Resume
  <1>12. CASE ResumeFails
    BY <1>12 DEF ResumeFails
  <1>13. CASE Tick
    BY <1>0, <1>13, PollAssumption DEF Tick
  <1>14. CASE UNCHANGED vars
    BY <1>14 DEF vars
  <1>15. QED
    BY <1>1, <1>2, <1>3, <1>4, <1>5, <1>6, <1>7, <1>8, <1>9, <1>10, <1>11,
       <1>12, <1>13, <1>14
    DEF Next, PollStep

(***************************************************************************)
(* Every variable keeps its type: the timer is never set further ahead     *)
(* than a second, whatever rates are stored, and hdaps_users never counts  *)
(* more users than there are.                                              *)
(***************************************************************************)
THEOREM Typing ==
  ASSUME IsFiniteSet(Tasks)
  PROVE  Spec => []TypeOK
  <1>1. PollInv /\ TimingInv => TypeOK
    <2> SUFFICES ASSUME PollInv, TimingInv
                 PROVE  TypeOK
      OBVIOUS
    <2>1. users \in 0 .. Cardinality(Tasks)
      BY FS_Subset, FS_CardinalityType DEF PollInv, UsersInv
    <2>2. QED
      BY <2>1 DEF PollInv, UsersInv, HandlerInv, TimingInv, TypeOK
  <1>2. QED
    BY PollInit, PollStepKeeps, TimingInit, TimingStepKeeps, <1>1, PTL DEF Spec


=============================================================================
