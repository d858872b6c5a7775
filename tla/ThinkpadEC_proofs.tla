-------------------------- MODULE ThinkpadEC_proofs -------------------------
(***************************************************************************)
(* Proofs about ThinkpadEC, for any clients, rows, timeout and EC speed,   *)
(* when every client takes the lock.                                       *)
(***************************************************************************)
EXTENDS ThinkpadEC, TLAPS

Requesting == {"request", "drain", "arg0", "ack", "send", "wait"}
Reading == {"poll", "get", "end"}

\* A client is past thinkpad_ec_lock exactly while it holds the semaphore.
LockInv == \A c \in Clients : pc[c] # "out" <=> sem = c

\* Which call a client can be in, and on which row.
CallInv ==
  \A c \in Clients :
    /\ pc[c] \in {"out", "smi"} => op[c] = "none"
    /\ pc[c] \in Requesting => op[c] \in {"read", "prefetch"}
    /\ pc[c] \in Reading => op[c] \in {"read", "try"}
    /\ pc[c] \in Requesting \cup Reading => row[c] \in Rows
    /\ op[c] \in {"try", "prefetch"} => row[c] \in PrefetchRows

\* How far the EC is with the holder's transaction.
MailboxInv ==
  \A c \in Clients :
    /\ pc[c] = "send" => phase = "cmd"
    /\ pc[c] = "wait" => phase \in {"ibf", "proc", "reply", "full"}
    /\ pc[c] = "poll" => phase \in {"reply", "full"}
    /\ pc[c] \in {"get", "end"} => phase = "full"
    /\ pc[c] \in {"send", "wait", "poll", "get", "end"} => mailbox = row[c]
    /\ pc[c] = "ack" /\ phase = "cmd" => mailbox = row[c]
    /\ pc[c] = "end" => data[c] = row[c]

\* While the holder tries a prefetched row the record is still of that row.
TryInv ==
  \A c \in Clients :
    pc[c] \in Reading /\ op[c] = "try"
      => prefetch_jiffies = "SET" /\ prefetch_args = Key[row[c]]

\* Where the EC can be as long as nobody has given up on it.
QuietInv ==
  ~silent =>
    /\ ~hung
    /\ sem = Free => phase \in {"idle", "reply", "full"}
    /\ \A c \in Clients :
         /\ pc[c] \in {"ready", "smi", "request", "drain"}
              => phase \in {"idle", "reply", "full"}
         /\ pc[c] = "arg0" => phase = "idle"
         /\ pc[c] = "ack" => phase = "cmd"

-----------------------------------------------------------------------------
(* Types, and which call each client is in: true of unlocked callers too.  *)

CallTypeInv == TypeOK /\ CallInv

LEMMA CallTypeInit == Init => CallTypeInv
  <1> SUFFICES ASSUME Init
               PROVE  CallTypeInv
    OBVIOUS
  <1>1. TypeOK
    <2>1. age \in 0 .. TPC_PREFETCH_TIMEOUT
      BY TimeAssumption DEF Init
    <2>2. phase \in Phases /\ mailbox \in Contents
      BY DEF Init, Phases, Contents
    <2>3. QED
      BY <2>1, <2>2, RowsAssumption
      DEF Init, TypeOK, Locations, Ops, Codes, Contents
  <1>2. CallInv
    BY DEF Init, CallInv, Requesting, Reading
  <1>3. QED
    BY <1>1, <1>2 DEF CallTypeInv

LEMMA CallTypeStep == CallTypeInv /\ [Next]_vars => CallTypeInv'
  <1> SUFFICES ASSUME CallTypeInv, [Next]_vars
               PROVE  CallTypeInv'
    OBVIOUS
  <1> USE RowsAssumption, TimeAssumption
      DEF CallTypeInv, TypeOK, CallInv, Locations, Ops, Codes, Phases,
          Contents, Requesting, Reading, callVars, prefetchVars, ecVars
  <1>1. ASSUME ECSees
         PROVE  CallTypeInv'
    BY <1>1 DEF ECSees
  <1>2. ASSUME ECStartsReply
         PROVE  CallTypeInv'
    BY <1>2 DEF ECStartsReply
  <1>3. ASSUME ECFinishesReply
         PROVE  CallTypeInv'
    BY <1>3 DEF ECFinishesReply
  <1>4. ASSUME NEW c \in Clients, Enter(c)
         PROVE  CallTypeInv'
    BY <1>4 DEF Enter
  <1>5. ASSUME NEW c \in Clients, Unlock(c)
         PROVE  CallTypeInv'
    BY <1>5 DEF Unlock, Forget
  <1>6. ASSUME NEW c \in Clients, NEW r \in Rows, ReadRow(c, r)
         PROVE  CallTypeInv'
    BY <1>6 DEF ReadRow, IsRowFetched, Start
  <1>7. ASSUME NEW c \in Clients, NEW r \in Rows, TryReadRow(c, r)
         PROVE  CallTypeInv'
    BY <1>7 DEF TryReadRow, IsRowFetched, Start
  <1>8. ASSUME NEW c \in Clients, NEW r \in Rows, PrefetchRow(c, r)
         PROVE  CallTypeInv'
    BY <1>8 DEF PrefetchRow, Start
  <1>9. ASSUME NEW c \in Clients, CheckIdle(c)
         PROVE  CallTypeInv'
    BY <1>9 DEF CheckIdle, STR3, RequestFails, Return, Junk
  <1>10. ASSUME NEW c \in Clients, Drain(c)
         PROVE  CallTypeInv'
    BY <1>10 DEF Drain, ReadTWR15, RequestFails, Return, Junk
  <1>11. ASSUME NEW c \in Clients, SendArg0(c)
         PROVE  CallTypeInv'
    BY <1>11 DEF SendArg0, WriteTWR0
  <1>12. ASSUME NEW c \in Clients, CheckAccepted(c)
         PROVE  CallTypeInv'
    BY <1>12 DEF CheckAccepted, STR3, RequestFails, Return, Junk
  <1>13. ASSUME NEW c \in Clients, SendArgs(c)
         PROVE  CallTypeInv'
    BY <1>13 DEF SendArgs, WriteTWR15
  <1>14. ASSUME NEW c \in Clients, AwaitReply(c)
         PROVE  CallTypeInv'
    BY <1>14 DEF AwaitReply, STR3, RequestSucceeds, Return
  <1>15. ASSUME NEW c \in Clients, GiveUpOnReply(c)
         PROVE  CallTypeInv'
    BY <1>15 DEF GiveUpOnReply, STR3, RequestFails, Return, Junk
  <1>16. ASSUME NEW c \in Clients, PollData(c)
         PROVE  CallTypeInv'
    BY <1>16 DEF PollData, STR3, ReadFails, Return, Junk
  <1>17. ASSUME NEW c \in Clients, GetData(c)
         PROVE  CallTypeInv'
    BY <1>17 DEF GetData
  <1>18. ASSUME NEW c \in Clients, EndData(c)
         PROVE  CallTypeInv'
    BY <1>18 DEF EndData, ReadTWR15, Return
  <1>19. ASSUME NEW c \in Clients, SMICall(c)
         PROVE  CallTypeInv'
    BY <1>19 DEF SMICall, Forget
  <1>20. ASSUME NEW c \in Clients, Invalidate(c)
         PROVE  CallTypeInv'
    BY <1>20 DEF Invalidate, Junk
  <1>21. ASSUME Tick
         PROVE  CallTypeInv'
    BY <1>21 DEF Tick
  <1>22. CASE UNCHANGED vars
    BY <1>22 DEF vars
  <1>23. QED
    BY <1>1, <1>2, <1>3, <1>4, <1>5, <1>6, <1>7, <1>8, <1>9, <1>10, <1>11,
       <1>12, <1>13, <1>14, <1>15, <1>16, <1>17, <1>18, <1>19, <1>20, <1>21, <1>22
    DEF Next, EC, Call, InCall, Request, ReadData

\* What holds of the steps of Next holds of those of Spec.
LEMMA Steps == [Next /\ UNCHANGED stalls]_<<vars, stalls>> => [Next]_vars
  BY DEF vars

(***************************************************************************)
(* Every variable keeps its type, with or without callers that skip the    *)
(* lock.                                                                   *)
(***************************************************************************)
THEOREM Typing == Spec => []TypeOK
  <1>1. CallTypeInv => TypeOK
    BY DEF CallTypeInv
  <1>2. QED
    BY CallTypeInit, CallTypeStep, Steps, <1>1, PTL DEF Spec

(***************************************************************************)
(* ... and each client's variables fit the call it is in.                  *)
(***************************************************************************)
THEOREM CallTyping == Spec => []CallTypeInv
  BY CallTypeInit, CallTypeStep, Steps, PTL DEF Spec

-----------------------------------------------------------------------------
(* The protocol invariant, when every client takes the lock.               *)

ProtocolInv ==
  /\ LockInv
  /\ MailboxInv
  /\ TryInv
  /\ PrefetchBacked
  /\ RowAnswersRequest
  /\ QuietInv

\* The status that acknowledges the first argument shows in one phase only.
LEMMA AckStatus == \A ph \in Phases : STR3[ph] = {"MWMF"} <=> ph = "cmd"
  <1>1. \A ph \in Phases : STR3[ph] = {"MWMF"} => "MWMF" \in STR3[ph]
    OBVIOUS
  <1>2. \A ph \in Phases : STR3[ph] = {"MWMF"} => "IBF3B" \notin STR3[ph]
    OBVIOUS
  <1>3. QED
    BY <1>1, <1>2 DEF STR3, Phases

LEMMA ProtocolInit == Init => ProtocolInv
  BY ClientsAssumption
  DEF Init, ProtocolInv, LockInv, MailboxInv, TryInv, PrefetchBacked,
      RowAnswersRequest, QuietInv, Requesting, Reading

LEMMA ProtocolStep ==
  Unlocked = {} /\ CallTypeInv /\ ProtocolInv /\ [Next]_vars => ProtocolInv'
  <1> SUFFICES ASSUME Unlocked = {}, CallTypeInv, ProtocolInv, [Next]_vars
               PROVE  ProtocolInv'
    OBVIOUS
  <1> USE ClientsAssumption, RowsAssumption
      DEF CallTypeInv, ProtocolInv, TypeOK, LockInv, CallInv, MailboxInv,
          TryInv, PrefetchBacked, RowAnswersRequest, QuietInv, Requesting,
          Reading, callVars, prefetchVars, ecVars
  <1>1. ASSUME ECSees
         PROVE  ProtocolInv'
    BY <1>1 DEF ECSees
  <1>2. ASSUME ECStartsReply
         PROVE  ProtocolInv'
    BY <1>2 DEF ECStartsReply
  <1>3. ASSUME ECFinishesReply
         PROVE  ProtocolInv'
    BY <1>3 DEF ECFinishesReply
  <1>4. ASSUME NEW c \in Clients, Enter(c)
         PROVE  ProtocolInv'
    <2> USE <1>4 DEF Enter
    <2>1. LockInv'
      OBVIOUS
    <2>2. MailboxInv'
      OBVIOUS
    <2>3. TryInv'
      OBVIOUS
    <2>4. PrefetchBacked'
      OBVIOUS
    <2>5. RowAnswersRequest'
      OBVIOUS
    <2>6. QuietInv'
      OBVIOUS
    <2>7. QED
      BY <2>1, <2>2, <2>3, <2>4, <2>5, <2>6 DEF ProtocolInv
  <1>5. ASSUME NEW c \in Clients, Unlock(c)
         PROVE  ProtocolInv'
    BY <1>5 DEF Unlock, Forget
  <1>6. ASSUME NEW c \in Clients, NEW r \in Rows, ReadRow(c, r)
         PROVE  ProtocolInv'
    BY <1>6 DEF ReadRow, IsRowFetched, Start
  <1>7. ASSUME NEW c \in Clients, NEW r \in Rows, TryReadRow(c, r)
         PROVE  ProtocolInv'
    BY <1>7 DEF TryReadRow, IsRowFetched, Start
  <1>8. ASSUME NEW c \in Clients, NEW r \in Rows, PrefetchRow(c, r)
         PROVE  ProtocolInv'
    BY <1>8 DEF PrefetchRow, Start
  <1>9. ASSUME NEW c \in Clients, CheckIdle(c)
         PROVE  ProtocolInv'
    <2> USE <1>9 DEF CheckIdle, STR3, RequestFails, Return, Junk
    <2>1. LockInv'
      OBVIOUS
    <2>2. MailboxInv'
      OBVIOUS
    <2>3. TryInv'
      OBVIOUS
    <2>4. PrefetchBacked'
      OBVIOUS
    <2>5. RowAnswersRequest'
      OBVIOUS
    <2>6. QuietInv'
      OBVIOUS
    <2>7. QED
      BY <2>1, <2>2, <2>3, <2>4, <2>5, <2>6 DEF ProtocolInv
  <1>10. ASSUME NEW c \in Clients, Drain(c)
         PROVE  ProtocolInv'
    BY <1>10 DEF Drain, ReadTWR15, RequestFails, Return, Junk
  <1>11. ASSUME NEW c \in Clients, SendArg0(c)
         PROVE  ProtocolInv'
    BY <1>11 DEF SendArg0, WriteTWR0
  <1>12. ASSUME NEW c \in Clients, CheckAccepted(c)
         PROVE  ProtocolInv'
    <2> USE <1>12 DEF CheckAccepted, STR3, RequestFails, Return, Junk
    <2>1. LockInv'
      OBVIOUS
    <2>2. MailboxInv'
      <3>1. CASE phase = "cmd"
        BY <3>1
      <3>2. CASE phase # "cmd"
        BY <3>2, AckStatus
      <3>3. QED
        BY <3>1, <3>2
    <2>3. TryInv'
      OBVIOUS
    <2>4. PrefetchBacked'
      OBVIOUS
    <2>5. RowAnswersRequest'
      OBVIOUS
    <2>6. QuietInv'
      OBVIOUS
    <2>7. QED
      BY <2>1, <2>2, <2>3, <2>4, <2>5, <2>6 DEF ProtocolInv
  <1>13. ASSUME NEW c \in Clients, SendArgs(c)
         PROVE  ProtocolInv'
    BY <1>13 DEF SendArgs, WriteTWR15
  <1>14. ASSUME NEW c \in Clients, AwaitReply(c)
         PROVE  ProtocolInv'
    BY <1>14 DEF AwaitReply, STR3, RequestSucceeds, Return
  <1>15. ASSUME NEW c \in Clients, GiveUpOnReply(c)
         PROVE  ProtocolInv'
    BY <1>15 DEF GiveUpOnReply, STR3, RequestFails, Return, Junk
  <1>16. ASSUME NEW c \in Clients, PollData(c)
         PROVE  ProtocolInv'
    <2> USE <1>16 DEF PollData, STR3, ReadFails, Return, Junk
    <2>1. LockInv'
      OBVIOUS
    <2>2. MailboxInv'
      OBVIOUS
    <2>3. TryInv'
      OBVIOUS
    <2>4. PrefetchBacked'
      OBVIOUS
    <2>5. RowAnswersRequest'
      OBVIOUS
    <2>6. QuietInv'
      OBVIOUS
    <2>7. QED
      BY <2>1, <2>2, <2>3, <2>4, <2>5, <2>6 DEF ProtocolInv
  <1>17. ASSUME NEW c \in Clients, GetData(c)
         PROVE  ProtocolInv'
    BY <1>17 DEF GetData
  <1>18. ASSUME NEW c \in Clients, EndData(c)
         PROVE  ProtocolInv'
    BY <1>18 DEF EndData, ReadTWR15, Return
  <1>19. ASSUME NEW c \in Clients, SMICall(c)
         PROVE  ProtocolInv'
    BY <1>19 DEF SMICall, Forget
  <1>20. ASSUME NEW c \in Clients, Invalidate(c)
         PROVE  ProtocolInv'
    BY <1>20 DEF Invalidate, Junk
  <1>21. ASSUME Tick
         PROVE  ProtocolInv'
    BY <1>21 DEF Tick
  <1>22. CASE UNCHANGED vars
    BY <1>22 DEF vars
  <1>23. QED
    BY <1>1, <1>2, <1>3, <1>4, <1>5, <1>6, <1>7, <1>8, <1>9, <1>10, <1>11,
       <1>12, <1>13, <1>14, <1>15, <1>16, <1>17, <1>18, <1>19, <1>20, <1>21, <1>22
    DEF Next, EC, Call, InCall, Request, ReadData

(***************************************************************************)
(* When every client takes the lock, the prefetch record, the mailbox and  *)
(* the calls under way agree in every state.                               *)
(***************************************************************************)
THEOREM Protocol ==
  ASSUME Unlocked = {}
  PROVE  Spec => []ProtocolInv
  <1>1. Init => ProtocolInv
    BY ProtocolInit
  <1>2. CallTypeInv /\ ProtocolInv /\ [Next]_vars => ProtocolInv'
    BY ProtocolStep
  <1>3. QED
    BY <1>1, <1>2, Steps, CallTyping, PTL DEF Spec

(***************************************************************************)
(* When every client takes the lock, a row handed over with success        *)
(* answers the call it is handed to.                                       *)
(***************************************************************************)
THEOREM RowsAnswerRequests ==
  ASSUME Unlocked = {}
  PROVE  Spec => []RowAnswersRequest
  <1>1. ProtocolInv => RowAnswersRequest
    BY DEF ProtocolInv
  <1>2. QED
    BY <1>1, Protocol, PTL

(***************************************************************************)
(* ... the record of a prefetch and the EC's mailbox agree between calls.  *)
(***************************************************************************)
THEOREM PrefetchesBacked ==
  ASSUME Unlocked = {}
  PROVE  Spec => []PrefetchBacked
  <1>1. ProtocolInv => PrefetchBacked
    BY DEF ProtocolInv
  <1>2. QED
    BY <1>1, Protocol, PTL

(***************************************************************************)
(* ... and the semaphore is never released on an EC that has yet to see or *)
(* process a command, the condition for its firmware not to hang.          *)
(***************************************************************************)
THEOREM QuietWhenReleased ==
  ASSUME Unlocked = {}
  PROVE  Spec => []QuietWhenFree
  <1>1. ProtocolInv => QuietWhenFree
    BY DEF ProtocolInv, QuietInv, QuietWhenFree
  <1>2. QED
    BY <1>1, Protocol, PTL

-----------------------------------------------------------------------------
(* The protocol implements EcRowServer.                                    *)

LEMMA ServerInit == Init => Server!Init
  BY DEF Init, Server!Init, askedBar, replyBar, Reads

\* A step inside a call either stays inside it, or ends it with an answer.
LEMMA CallStep ==
  ASSUME CallTypeInv, LockInv,
         NEW c \in Clients, NEW l \in Locations \ {"out"},
         pc[c] \notin {"out", "ready"},
         pc' = [pc EXCEPT ![c] = l],
         UNCHANGED <<sem, op, row>>,
         \A d \in Clients \ {c} : ret'[d] = ret[d] /\ data'[d] = data[d],
         l = "ready" /\ ret'[c] = "ok" /\ op[c] \in Reads
           => data'[c] = row[c]
  PROVE  Server!Answer(c) \/ UNCHANGED Server!vars
  <1> USE DEF CallTypeInv, TypeOK, askedBar, replyBar
  <1>1. CASE op[c] \in Reads /\ l = "ready"
    <2>1. row[c] # NoRow
      BY <1>1, RowsAssumption
      DEF CallInv, Reads, Requesting, Reading, Locations
    <2>2. askedBar' = [askedBar EXCEPT ![c] = NoRow]
      BY <1>1
    <2>3. \/ replyBar' = [replyBar EXCEPT ![c] = row[c]]
          \/ replyBar' = [replyBar EXCEPT ![c] = Failed]
      <3>1. CASE ret'[c] = "ok"
        BY <1>1, <3>1
      <3>2. CASE ret'[c] # "ok"
        BY <1>1, <3>2
      <3>3. QED
        BY <3>1, <3>2
    <2>4. askedBar[c] = row[c] /\ sem = c
      BY <1>1 DEF LockInv
    <2>5. QED
      BY <2>1, <2>2, <2>3, <2>4 DEF Server!Answer
  <1>2. CASE ~(op[c] \in Reads /\ l = "ready")
    <2>1. askedBar' = askedBar
      BY <1>2
    <2>2. replyBar' = replyBar
      BY <1>2
    <2>3. QED
      BY <2>1, <2>2 DEF Server!vars
  <1>3. QED
    BY <1>1, <1>2

LEMMA ServerStep ==
  Unlocked = {} /\ CallTypeInv /\ ProtocolInv /\ [Next]_vars
    => [Server!Next]_(Server!vars)
  <1> SUFFICES ASSUME Unlocked = {}, CallTypeInv, ProtocolInv, [Next]_vars
               PROVE  [Server!Next]_(Server!vars)
    OBVIOUS
  <1>a. \A c \in Clients :
          /\ pc[c] = "ready" => sem = c /\ askedBar[c] = NoRow
          /\ pc[c] = "out" => op[c] = "none"
    BY DEF ProtocolInv, LockInv, CallTypeInv, CallInv, askedBar
  <1>b. ASSUME NEW c \in Clients, Server!Answer(c) \/ UNCHANGED Server!vars
        PROVE  [Server!Next]_(Server!vars)
    BY <1>b DEF Server!Next
  <1> USE DEF callVars, prefetchVars, ecVars
  <1>1. ASSUME ECSees
         PROVE  [Server!Next]_(Server!vars)
    BY <1>1 DEF ECSees, Server!vars, askedBar, replyBar
  <1>2. ASSUME ECStartsReply
         PROVE  [Server!Next]_(Server!vars)
    BY <1>2 DEF ECStartsReply, Server!vars, askedBar, replyBar
  <1>3. ASSUME ECFinishesReply
         PROVE  [Server!Next]_(Server!vars)
    BY <1>3 DEF ECFinishesReply, Server!vars, askedBar, replyBar
  <1>4. ASSUME NEW c \in Clients, Enter(c)
         PROVE  [Server!Next]_(Server!vars)
    <2>1. askedBar' = askedBar
      BY <1>4, <1>a DEF Enter, CallTypeInv, TypeOK, askedBar, replyBar, Reads
    <2>2. replyBar' = replyBar
      BY <1>4, <1>a DEF Enter, CallTypeInv, TypeOK, askedBar, replyBar, Reads
    <2>3. Server!Acquire(c)
      BY <1>4, <1>a, <2>1, <2>2 DEF Enter, Server!Acquire
    <2>4. QED
      BY <2>3 DEF Server!Next
  <1>5. ASSUME NEW c \in Clients, Unlock(c)
         PROVE  [Server!Next]_(Server!vars)
    <2>1. askedBar' = askedBar
      BY <1>5 DEF Unlock, Forget, CallTypeInv, TypeOK, askedBar, replyBar, Reads
    <2>2. replyBar' = [replyBar EXCEPT ![c] = NoRow]
      BY <1>5 DEF Unlock, Forget, CallTypeInv, TypeOK, askedBar, replyBar, Reads
    <2>3. Server!Release(c)
      BY <1>5, <1>a, <2>1, <2>2 DEF Unlock, Server!Release
    <2>4. QED
      BY <2>3 DEF Server!Next
  <1>6. ASSUME NEW c \in Clients, NEW r \in Rows, ReadRow(c, r)
         PROVE  [Server!Next]_(Server!vars)
    <2>1. askedBar' = [askedBar EXCEPT ![c] = r]
      BY <1>6 DEF ReadRow, Start, CallTypeInv, TypeOK, askedBar, replyBar, Reads
    <2>2. replyBar' = [replyBar EXCEPT ![c] = NoRow]
      BY <1>6 DEF ReadRow, Start, CallTypeInv, TypeOK, askedBar, replyBar, Reads
    <2>3. Server!Ask(c, r)
      BY <1>6, <1>a, <2>1, <2>2 DEF ReadRow, Server!Ask
    <2>4. QED
      BY <2>3 DEF Server!Next
  <1>7. ASSUME NEW c \in Clients, NEW r \in Rows, TryReadRow(c, r)
         PROVE  [Server!Next]_(Server!vars)
    <2> USE <1>7 DEF TryReadRow, Start, CallTypeInv, TypeOK, askedBar, replyBar, Reads
    <2>1. CASE IsRowFetched(r)
      <3>1. askedBar' = [askedBar EXCEPT ![c] = r]
        BY <2>1
      <3>2. replyBar' = [replyBar EXCEPT ![c] = NoRow]
        BY <2>1
      <3>3. Server!Ask(c, r)
        BY <1>a, <3>1, <3>2 DEF Server!Ask
      <3>4. QED
        BY <3>3 DEF Server!Next
    <2>2. CASE ~IsRowFetched(r)
      <3>1. askedBar' = askedBar
        BY <2>2
      <3>2. replyBar' = [replyBar EXCEPT ![c] = Failed]
        BY <2>2
      <3>3. Server!Refuse(c)
        BY <1>a, <3>1, <3>2 DEF Server!Refuse
      <3>4. QED
        BY <3>3 DEF Server!Next
    <2>3. QED
      BY <2>1, <2>2
  <1>8. ASSUME NEW c \in Clients, NEW r \in Rows, PrefetchRow(c, r)
         PROVE  [Server!Next]_(Server!vars)
    <2>1. askedBar' = askedBar
      BY <1>8 DEF PrefetchRow, Start, CallTypeInv, TypeOK, askedBar, replyBar, Reads
    <2>2. replyBar' = [replyBar EXCEPT ![c] = NoRow]
      BY <1>8 DEF PrefetchRow, Start, CallTypeInv, TypeOK, askedBar, replyBar, Reads
    <2>3. Server!Discard(c)
      BY <1>8, <1>a, <2>1, <2>2 DEF PrefetchRow, Server!Discard
    <2>4. QED
      BY <2>3 DEF Server!Next
  <1>9. ASSUME NEW c \in Clients, CheckIdle(c)
         PROVE  [Server!Next]_(Server!vars)
    <2>1. Server!Answer(c) \/ UNCHANGED Server!vars
      BY <1>9, CallStep
      DEF CheckIdle, RequestFails, Return, ProtocolInv, CallTypeInv, TypeOK,
          CallInv, Requesting,
          Reading, Reads, Locations
    <2>2. QED
      BY <1>b, <2>1
  <1>10. ASSUME NEW c \in Clients, Drain(c)
         PROVE  [Server!Next]_(Server!vars)
    <2>1. Server!Answer(c) \/ UNCHANGED Server!vars
      BY <1>10, CallStep
      DEF Drain, RequestFails, Return, ProtocolInv, CallTypeInv, TypeOK,
          CallInv, Requesting,
          Reading, Reads, Locations
    <2>2. QED
      BY <1>b, <2>1
  <1>11. ASSUME NEW c \in Clients, SendArg0(c)
         PROVE  [Server!Next]_(Server!vars)
    <2>1. Server!Answer(c) \/ UNCHANGED Server!vars
      BY <1>11, CallStep
      DEF SendArg0, ProtocolInv, CallTypeInv, TypeOK, CallInv, Requesting,
          Reading, Reads, Locations
    <2>2. QED
      BY <1>b, <2>1
  <1>12. ASSUME NEW c \in Clients, CheckAccepted(c)
         PROVE  [Server!Next]_(Server!vars)
    <2>1. Server!Answer(c) \/ UNCHANGED Server!vars
      BY <1>12, CallStep
      DEF CheckAccepted, RequestFails, Return, ProtocolInv, CallTypeInv, TypeOK,
          CallInv, Requesting,
          Reading, Reads, Locations
    <2>2. QED
      BY <1>b, <2>1
  <1>13. ASSUME NEW c \in Clients, SendArgs(c)
         PROVE  [Server!Next]_(Server!vars)
    <2>1. Server!Answer(c) \/ UNCHANGED Server!vars
      BY <1>13, CallStep
      DEF SendArgs, ProtocolInv, CallTypeInv, TypeOK, CallInv, Requesting,
          Reading, Reads, Locations
    <2>2. QED
      BY <1>b, <2>1
  <1>14. ASSUME NEW c \in Clients, AwaitReply(c)
         PROVE  [Server!Next]_(Server!vars)
    <2>1. Server!Answer(c) \/ UNCHANGED Server!vars
      BY <1>14, CallStep
      DEF AwaitReply, RequestSucceeds, Return, ProtocolInv, CallTypeInv, TypeOK,
          CallInv, Requesting,
          Reading, Reads, Locations
    <2>2. QED
      BY <1>b, <2>1
  <1>15. ASSUME NEW c \in Clients, GiveUpOnReply(c)
         PROVE  [Server!Next]_(Server!vars)
    <2>1. Server!Answer(c) \/ UNCHANGED Server!vars
      BY <1>15, CallStep
      DEF GiveUpOnReply, RequestFails, Return, ProtocolInv, CallTypeInv, TypeOK,
          CallInv, Requesting,
          Reading, Reads, Locations
    <2>2. QED
      BY <1>b, <2>1
  <1>16. ASSUME NEW c \in Clients, PollData(c)
         PROVE  [Server!Next]_(Server!vars)
    <2>1. Server!Answer(c) \/ UNCHANGED Server!vars
      BY <1>16, CallStep
      DEF PollData, ReadFails, Return, ProtocolInv, CallTypeInv, TypeOK,
          CallInv, Requesting,
          Reading, Reads, Locations
    <2>2. QED
      BY <1>b, <2>1
  <1>17. ASSUME NEW c \in Clients, GetData(c)
         PROVE  [Server!Next]_(Server!vars)
    <2>1. Server!Answer(c) \/ UNCHANGED Server!vars
      BY <1>17, CallStep
      DEF GetData, ProtocolInv, CallTypeInv, TypeOK, CallInv, Requesting,
          Reading, Reads, Locations
    <2>2. QED
      BY <1>b, <2>1
  <1>18. ASSUME NEW c \in Clients, EndData(c)
         PROVE  [Server!Next]_(Server!vars)
    <2>1. Server!Answer(c) \/ UNCHANGED Server!vars
      BY <1>18, CallStep
      DEF EndData, Return, ProtocolInv, MailboxInv, CallTypeInv, TypeOK, CallInv, Requesting,
          Reading, Reads, Locations
    <2>2. QED
      BY <1>b, <2>1
  <1>19. ASSUME NEW c \in Clients, SMICall(c)
         PROVE  [Server!Next]_(Server!vars)
    <2>1. askedBar' = askedBar
      BY <1>19 DEF SMICall, Forget, CallTypeInv, TypeOK, askedBar, replyBar, Reads
    <2>2. replyBar' = [replyBar EXCEPT ![c] = NoRow]
      BY <1>19 DEF SMICall, Forget, CallTypeInv, TypeOK, askedBar, replyBar, Reads
    <2>3. Server!Discard(c)
      BY <1>19, <1>a, <2>1, <2>2 DEF SMICall, Server!Discard
    <2>4. QED
      BY <2>3 DEF Server!Next
  <1>20. ASSUME NEW c \in Clients, Invalidate(c)
         PROVE  [Server!Next]_(Server!vars)
    <2>1. CASE pc[c] = "ready"
      BY <1>20, <2>1 DEF Invalidate, Server!vars, CallTypeInv, TypeOK, askedBar, replyBar, Reads
    <2>2. CASE pc[c] = "smi"
      BY <1>20, <1>b, <2>2, CallStep
      DEF Invalidate, ProtocolInv, CallTypeInv, CallInv, Reads, Locations
    <2>3. QED
      BY <1>20, <2>1, <2>2 DEF Invalidate
  <1>21. ASSUME Tick
         PROVE  [Server!Next]_(Server!vars)
    BY <1>21 DEF Tick, Server!vars, askedBar, replyBar
  <1>22. CASE UNCHANGED vars
    BY <1>22 DEF vars, Server!vars, askedBar, replyBar
  <1>23. QED
    BY <1>1, <1>2, <1>3, <1>4, <1>5, <1>6, <1>7, <1>8, <1>9, <1>10, <1>11,
       <1>12, <1>13, <1>14, <1>15, <1>16, <1>17, <1>18, <1>19, <1>20, <1>21, <1>22
    DEF Next, EC, Call, InCall, Request, ReadData

(***************************************************************************)
(* When every client takes the lock, the row functions implement the       *)
(* atomic row server.                                                      *)
(***************************************************************************)
THEOREM Implements ==
  ASSUME Unlocked = {}
  PROVE  Spec => ServesRows
  <1>1. CallTypeInv /\ ProtocolInv /\ [Next]_vars
          => [Server!Next]_(Server!vars)
    BY ServerStep
  <1>2. QED
    BY <1>1, ServerInit, Steps, CallTyping, Protocol, PTL
    DEF Spec, ServesRows, Server!Spec

=============================================================================
