----------------------------- MODULE ThinkpadEC -----------------------------
(***************************************************************************)
(* The row protocol of src/tp_smapi/thinkpad_ec.c: kernel threads reach    *)
(* the ThinkPad's embedded controller (EC, an H8S behind an LPC mailbox)   *)
(* through thinkpad_ec_read_row, thinkpad_ec_try_read_row and              *)
(* thinkpad_ec_prefetch_row, under one semaphore.  A step of a client is   *)
(* one port access or one update of the prefetch record; the EC moves by   *)
(* itself between any two of them.                                         *)
(*                                                                         *)
(* A row is the 16 argument bytes of a request.  The EC's answer is named  *)
(* by the row it answers.  The retry counters TPC_READ_RETRIES and         *)
(* TPC_REQUEST_RETRIES are budgets of time: stalls says whether the EC may *)
(* be slow enough to exhaust one.                                          *)
(***************************************************************************)
EXTENDS Naturals

CONSTANTS
  Clients,       \* kernel threads that use the EC
  Unlocked,      \* those of them that call in without thinkpad_ec_lock
  Rows,          \* the argument vectors in use
  PrefetchRows,  \* those passed to prefetch_row and try_read_row
  Keys,          \* pairs of the first and the last argument byte
  Key,           \* the pair of each row
  ZeroKey,       \* the pair static storage starts with
  Free,          \* nobody holds thinkpad_ec_mutex
  NoRow,         \* no row
  Failed,        \* a call that returns an error, to a row's user
  Garbled,       \* arguments of two callers mixed in the mailbox
  BiosRow,       \* the request the SMBIOS makes on behalf of tp_smapi
  TPC_PREFETCH_TIMEOUT   \* jiffies a prefetched row stays usable

(***************************************************************************)
(* The clients that break the locking rule are among the clients.          *)
(***************************************************************************)
ASSUME ClientsAssumption == Unlocked \subseteq Clients /\ Free \notin Clients

(***************************************************************************)
(* thinkpad_ec_is_row_fetched compares only the first and last argument:   *)
(* "this suffices for all known cases".  It does when no other row shares  *)
(* the pair of a row that is prefetched; rows that are never prefetched    *)
(* may collide, as hdaps's 0x10, 0x14 and 0x17 commands do.                *)
(***************************************************************************)
ASSUME RowsAssumption ==
  /\ PrefetchRows \subseteq Rows
  /\ Key \in [Rows -> Keys]
  /\ ZeroKey \in Keys
  /\ \A p \in PrefetchRows, r \in Rows : Key[r] = Key[p] => r = p
  /\ Rows \cap {NoRow, Garbled, BiosRow} = {}

ASSUME TimeAssumption == TPC_PREFETCH_TIMEOUT \in Nat

VARIABLES
  sem,              \* holder of thinkpad_ec_mutex, or Free
  pc,               \* where each client is
  op,               \* the call each client is making or made last
  row,              \* its args
  ret,              \* what it returned
  data,             \* the row whose answer it was given
  prefetch_jiffies, \* NONE, JUNK, or SET when it holds a time
  prefetch_args,    \* prefetch_arg0 and prefetch_argF
  age,              \* jiffies since the prefetch, up to the timeout
  phase,            \* how far the EC is with the transaction in the mailbox
  mailbox,          \* the row the mailbox is about
  hung,             \* the EC firmware has locked up
  silent,           \* some caller gave up on an EC that had not answered
  stalls            \* the EC may outlast a retry loop

callVars == <<op, row, ret, data>>
prefetchVars == <<prefetch_jiffies, prefetch_args, age>>
ecVars == <<phase, mailbox, hung>>
vars == <<sem, pc, op, row, ret, data, prefetch_jiffies, prefetch_args, age,
          phase, mailbox, hung, silent>>

Locations == {"out", "ready", "request", "drain", "arg0", "ack", "send",
              "wait", "poll", "get", "end", "smi"}
Ops == {"none", "read", "try", "prefetch"}
Codes == {"none", "ok", "EBUSY", "EIO", "ENODATA"}
Phases == {"idle", "cmd", "ibf", "proc", "reply", "full"}
Contents == Rows \cup {NoRow, Garbled, BiosRow}

Init ==
  /\ sem = Free
  /\ pc = [c \in Clients |-> "out"]
  /\ op = [c \in Clients |-> "none"]
  /\ row = [c \in Clients |-> NoRow]
  /\ ret = [c \in Clients |-> "none"]
  /\ data = [c \in Clients |-> NoRow]
  /\ prefetch_jiffies = "JUNK"
  /\ prefetch_args = ZeroKey
  /\ age = TPC_PREFETCH_TIMEOUT
  /\ \/ phase = "idle" /\ mailbox = NoRow
     \/ phase = "full" /\ mailbox = BiosRow
  /\ hung = FALSE
  /\ silent = FALSE
  /\ stalls \in BOOLEAN

-----------------------------------------------------------------------------
(* The EC's side of the mailbox.                                           *)

\* The STR3 bits each phase shows.  "proc" looks exactly like an idle EC.
STR3 == [idle |-> {}, cmd |-> {"MWMF"}, ibf |-> {"IBF3B", "MWMF"},
         proc |-> {}, reply |-> {"SWMF"}, full |-> {"OBF3B", "SWMF"}]

ECSees ==
  /\ ~hung /\ phase = "ibf"
  /\ phase' = "proc"
  /\ UNCHANGED <<sem, pc, callVars, prefetchVars, mailbox, hung, silent>>

ECStartsReply ==
  /\ ~hung /\ phase = "proc"
  /\ phase' = "reply"
  /\ UNCHANGED <<sem, pc, callVars, prefetchVars, mailbox, hung, silent>>

ECFinishesReply ==
  /\ ~hung /\ phase = "reply"
  /\ phase' = "full"
  /\ UNCHANGED <<sem, pc, callVars, prefetchVars, mailbox, hung, silent>>

\* outb to TWR0: ignored while the EC owns the mailbox; over the arguments
\* of a command being written or processed it loses them, and hangs the
\* firmware once the EC has been handed the command.
WriteTWR0(r) ==
  IF phase \in {"reply", "full"}
  THEN UNCHANGED ecVars
  ELSE /\ phase' = "cmd"
       /\ mailbox' = r
       /\ hung' = (hung \/ phase \in {"ibf", "proc"})

\* outb to TWR1 up to TWR15, which hands the command to the EC.
WriteTWR15(r) ==
  IF phase = "cmd"
  THEN /\ phase' = "ibf"
       /\ mailbox' = IF mailbox = r THEN r ELSE Garbled
       /\ UNCHANGED hung
  ELSE UNCHANGED ecVars

\* inb from TWR15 frees a full mailbox.
ReadTWR15 ==
  /\ phase' = IF phase = "full" THEN "idle" ELSE phase
  /\ mailbox' = IF phase = "full" THEN NoRow ELSE mailbox
  /\ UNCHANGED hung

-----------------------------------------------------------------------------
(* The semaphore.                                                          *)

\* Mutant: the caller goes on although thinkpad_ec_try_lock failed.
EnterIgnoringFailure(c) ==
  /\ pc[c] = "out"
  /\ sem' = c
  /\ pc' = [pc EXCEPT ![c] = "ready"]
  /\ UNCHANGED <<callVars, prefetchVars, ecVars, silent>>

\* thinkpad_ec_lock or thinkpad_ec_try_lock succeeds; a failure of either
\* changes nothing.  The unlocked callers, hdaps's sysfs attributes and its
\* shutdown, go straight on.
Enter(c) ==
  /\ pc[c] = "out"
  /\ c \notin Unlocked => sem = Free
  /\ sem' = IF c \in Unlocked THEN sem ELSE c
  /\ pc' = [pc EXCEPT ![c] = "ready"]
  /\ UNCHANGED <<callVars, prefetchVars, ecVars, silent>>

Forget(c) ==
  /\ op' = [op EXCEPT ![c] = "none"]
  /\ row' = [row EXCEPT ![c] = NoRow]
  /\ ret' = [ret EXCEPT ![c] = "none"]
  /\ data' = [data EXCEPT ![c] = NoRow]

Unlock(c) ==
  /\ pc[c] = "ready"
  /\ sem' = IF c \in Unlocked THEN sem ELSE Free
  /\ pc' = [pc EXCEPT ![c] = "out"]
  /\ Forget(c)
  /\ UNCHANGED <<prefetchVars, ecVars, silent>>

-----------------------------------------------------------------------------
(* The calls.                                                              *)

\* Mutant: any recent prefetch will do.
IsAnyRowFetched(r) ==
  prefetch_jiffies = "SET" /\ age < TPC_PREFETCH_TIMEOUT

IsRowFetched(r) ==
  /\ prefetch_jiffies = "SET"
  /\ prefetch_args = Key[r]
  /\ age < TPC_PREFETCH_TIMEOUT

Start(c, what, r) ==
  /\ op' = [op EXCEPT ![c] = what]
  /\ row' = [row EXCEPT ![c] = r]
  /\ data' = [data EXCEPT ![c] = NoRow]

ReadRow(c, r) ==
  /\ pc[c] = "ready" /\ (c \in Unlocked => r \notin PrefetchRows)
  /\ Start(c, "read", r)
  /\ pc' = [pc EXCEPT ![c] = IF IsRowFetched(r) THEN "poll" ELSE "request"]
  /\ ret' = [ret EXCEPT ![c] = "none"]
  /\ UNCHANGED <<sem, prefetchVars, ecVars, silent>>

TryReadRow(c, r) ==
  /\ pc[c] = "ready" /\ c \notin Unlocked /\ r \in PrefetchRows
  /\ Start(c, "try", r)
  /\ pc' = [pc EXCEPT ![c] = IF IsRowFetched(r) THEN "poll" ELSE "ready"]
  /\ ret' = [ret EXCEPT ![c] = IF IsRowFetched(r) THEN "none" ELSE "ENODATA"]
  /\ UNCHANGED <<sem, prefetchVars, ecVars, silent>>

PrefetchRow(c, r) ==
  /\ pc[c] = "ready" /\ c \notin Unlocked /\ r \in PrefetchRows
  /\ Start(c, "prefetch", r)
  /\ pc' = [pc EXCEPT ![c] = "request"]
  /\ ret' = [ret EXCEPT ![c] = "none"]
  /\ UNCHANGED <<sem, prefetchVars, ecVars, silent>>

\* prefetch_jiffies = TPC_PREFETCH_JUNK
Junk ==
  /\ prefetch_jiffies' = "JUNK"
  /\ UNCHANGED <<prefetch_args, age>>

Return(c, code) ==
  /\ pc' = [pc EXCEPT ![c] = "ready"]
  /\ ret' = [ret EXCEPT ![c] = code]

\* The retries run out when the EC is slow or has locked up.
MayGiveUp == stalls \/ hung

\* What the callers of thinkpad_ec_request_row do with its error: read_row
\* tries again after EBUSY while its retries last, and both forget the
\* prefetch when they give up.
RequestFails(c, code) ==
  \/ /\ op[c] = "read" /\ code = "EBUSY"
     /\ pc' = [pc EXCEPT ![c] = "request"]
     /\ UNCHANGED <<ret, prefetchVars>>
  \/ /\ op[c] = "prefetch" \/ code # "EBUSY" \/ MayGiveUp
     /\ Return(c, code)
     /\ Junk

\* ... and with its success.
RequestSucceeds(c) ==
  \/ /\ op[c] = "read"
     /\ pc' = [pc EXCEPT ![c] = "poll"]
     /\ UNCHANGED <<ret, prefetchVars>>
  \/ /\ op[c] = "prefetch"
     /\ Return(c, "ok")
     /\ prefetch_jiffies' = "SET"
     /\ prefetch_args' = Key[row[c]]
     /\ age' = 0

\* thinkpad_ec_request_row: the initial check of STR3.
CheckIdle(c) ==
  /\ pc[c] = "request"
  /\ \/ /\ "OBF3B" \in STR3[phase]
        /\ pc' = [pc EXCEPT ![c] = "drain"]
        /\ UNCHANGED <<ret, prefetchVars>>
     \/ STR3[phase] = {"SWMF"} /\ RequestFails(c, "EBUSY")
     \/ STR3[phase] \in {{"MWMF"}, {"IBF3B", "MWMF"}} /\ RequestFails(c, "EIO")
     \/ /\ STR3[phase] = {}
        /\ pc' = [pc EXCEPT ![c] = "arg0"]
        /\ UNCHANGED <<ret, prefetchVars>>
  /\ UNCHANGED <<sem, op, row, data, ecVars, silent>>

\* Mutant: the pending answer is noticed but TWR15 is not read.
DrainNothing(c) ==
  /\ pc[c] = "drain"
  /\ RequestFails(c, "EBUSY")
  /\ UNCHANGED <<sem, op, row, data, ecVars, silent>>

\* "marks end of previous transaction"
Drain(c) ==
  /\ pc[c] = "drain"
  /\ ReadTWR15
  /\ RequestFails(c, "EBUSY")
  /\ UNCHANGED <<sem, op, row, data, silent>>

SendArg0(c) ==
  /\ pc[c] = "arg0"
  /\ WriteTWR0(row[c])
  /\ pc' = [pc EXCEPT ![c] = "ack"]
  /\ UNCHANGED <<sem, callVars, prefetchVars, silent>>

CheckAccepted(c) ==
  /\ pc[c] = "ack"
  /\ \/ /\ STR3[phase] = {"MWMF"}
        /\ pc' = [pc EXCEPT ![c] = "send"]
        /\ UNCHANGED <<ret, prefetchVars>>
     \/ STR3[phase] # {"MWMF"} /\ RequestFails(c, "EIO")
  /\ UNCHANGED <<sem, op, row, data, ecVars, silent>>

\* Mutant: request_row returns without waiting for the EC.
SendArgsAndReturn(c) ==
  /\ pc[c] = "send"
  /\ WriteTWR15(row[c])
  /\ RequestSucceeds(c)
  /\ UNCHANGED <<sem, op, row, data, silent>>

SendArgs(c) ==
  /\ pc[c] = "send"
  /\ WriteTWR15(row[c])
  /\ pc' = [pc EXCEPT ![c] = "wait"]
  /\ UNCHANGED <<sem, callVars, prefetchVars, silent>>

\* "Wait until EC starts writing its reply"
AwaitReply(c) ==
  /\ pc[c] = "wait"
  /\ "SWMF" \in STR3[phase]
  /\ RequestSucceeds(c)
  /\ UNCHANGED <<sem, op, row, data, ecVars, silent>>

\* "EC is mysteriously silent"
GiveUpOnReply(c) ==
  /\ MayGiveUp
  /\ pc[c] = "wait"
  /\ "SWMF" \notin STR3[phase]
  /\ RequestFails(c, "EIO")
  /\ silent' = TRUE
  /\ UNCHANGED <<sem, op, row, data, ecVars>>

\* What read_row and try_read_row do with an error of read_data.
ReadFails(c, code) ==
  \/ /\ op[c] = "read" /\ code = "EBUSY"
     /\ pc' = [pc EXCEPT ![c] = "poll"]
     /\ UNCHANGED <<ret, prefetchVars>>
  \/ /\ op[c] = "read"
     /\ code # "EBUSY" \/ MayGiveUp
     /\ Return(c, code)
     /\ Junk
  \/ /\ op[c] = "try"
     /\ Return(c, code)
     /\ UNCHANGED prefetchVars

\* thinkpad_ec_read_data: the check of STR3.
PollData(c) ==
  /\ pc[c] = "poll"
  /\ \/ /\ STR3[phase] \in {{"IBF3B", "MWMF"}, {}, {"SWMF"}}
        /\ ReadFails(c, "EBUSY")
     \/ STR3[phase] = {"MWMF"} /\ ReadFails(c, "EIO")
     \/ /\ STR3[phase] = {"OBF3B", "SWMF"}
        /\ pc' = [pc EXCEPT ![c] = "get"]
        /\ UNCHANGED <<ret, prefetchVars>>
  /\ UNCHANGED <<sem, op, row, data, ecVars, silent>>

\* inb from TWR0 up to TWR14
GetData(c) ==
  /\ pc[c] = "get"
  /\ data' = [data EXCEPT ![c] = mailbox]
  /\ pc' = [pc EXCEPT ![c] = "end"]
  /\ UNCHANGED <<sem, op, row, ret, prefetchVars, ecVars, silent>>

\* inb from TWR15, and what the two callers do with the success.
EndData(c) ==
  /\ pc[c] = "end"
  /\ ReadTWR15
  /\ Return(c, "ok")
  /\ prefetch_jiffies' = IF op[c] = "try" THEN "NONE" ELSE "JUNK"
  /\ UNCHANGED <<sem, op, row, data, prefetch_args, age, silent>>

\* smapi_request under the lock: the SMBIOS talks to the same chip, leaving
\* the mailbox idle or with an answer nobody here asked for.
SMICall(c) ==
  /\ pc[c] = "ready" /\ c \notin Unlocked
  /\ IF hung \/ phase \in {"cmd", "ibf", "proc"}
     THEN UNCHANGED ecVars
     ELSE /\ \/ phase' = "idle" /\ mailbox' = NoRow
             \/ phase' = "full" /\ mailbox' = BiosRow
          /\ UNCHANGED hung
  /\ pc' = [pc EXCEPT ![c] = "smi"]
  /\ Forget(c)
  /\ UNCHANGED <<sem, prefetchVars, silent>>

\* Mutant: smapi_request forgets thinkpad_ec_invalidate.
InvalidateNothing(c) ==
  /\ pc[c] = "smi"
  /\ pc' = [pc EXCEPT ![c] = "ready"]
  /\ UNCHANGED <<sem, callVars, prefetchVars, ecVars, silent>>

\* "Must be called before unlocking by any code that accesses the controller
\* ports directly."  hdaps_device_init also calls it between two requests.
Invalidate(c) ==
  /\ pc[c] \in {"ready", "smi"} /\ c \notin Unlocked
  /\ Junk
  /\ pc' = [pc EXCEPT ![c] = "ready"]
  /\ UNCHANGED <<sem, callVars, ecVars, silent>>

\* Mutant: the age of a prefetch runs on past the timeout.
TickPastTimeout ==
  /\ prefetch_jiffies = "SET"
  /\ age' = age + 1
  /\ UNCHANGED <<sem, pc, callVars, prefetch_jiffies, prefetch_args, ecVars,
                 silent>>

\* One jiffy, for as long as the age of the prefetch can still matter.
Tick ==
  /\ prefetch_jiffies = "SET"
  /\ age < TPC_PREFETCH_TIMEOUT
  /\ age' = age + 1
  /\ UNCHANGED <<sem, pc, callVars, prefetch_jiffies, prefetch_args, ecVars,
                 silent>>

-----------------------------------------------------------------------------

Request(c) ==
  \/ CheckIdle(c) \/ Drain(c) \/ SendArg0(c) \/ CheckAccepted(c)
  \/ SendArgs(c) \/ AwaitReply(c) \/ GiveUpOnReply(c)

ReadData(c) == PollData(c) \/ GetData(c) \/ EndData(c)

\* The steps a client takes on its own once it has called.
InCall(c) ==
  /\ pc[c] # "ready"
  /\ Request(c) \/ ReadData(c) \/ Invalidate(c)

Call(c) ==
  \/ \E r \in Rows : ReadRow(c, r) \/ TryReadRow(c, r) \/ PrefetchRow(c, r)
  \/ SMICall(c)
  \/ pc[c] = "ready" /\ Invalidate(c)

EC == ECSees \/ ECStartsReply \/ ECFinishesReply

Next ==
  \/ \E c \in Clients :
       Enter(c) \/ Unlock(c) \/ Call(c) \/ InCall(c)
  \/ EC
  \/ Tick

\* How slow the EC is does not change.
Spec ==
  /\ Init
  /\ [][Next /\ UNCHANGED stalls]_<<vars, stalls>>

\* Kernel code that has been called runs on, and so does the firmware.
Fairness == WF_vars(EC) /\ \A c \in Clients : WF_vars(InCall(c))

FairSpec == Spec /\ Fairness

-----------------------------------------------------------------------------

TypeOK ==
  /\ sem \in Clients \cup {Free}
  /\ pc \in [Clients -> Locations]
  /\ op \in [Clients -> Ops]
  /\ row \in [Clients -> Rows \cup {NoRow}]
  /\ ret \in [Clients -> Codes]
  /\ data \in [Clients -> Contents]
  /\ prefetch_jiffies \in {"NONE", "JUNK", "SET"}
  /\ prefetch_args \in Keys
  /\ age \in 0 .. TPC_PREFETCH_TIMEOUT
  /\ phase \in Phases
  /\ mailbox \in Contents
  /\ hung \in BOOLEAN
  /\ silent \in BOOLEAN

(***************************************************************************)
(* A row that thinkpad_ec_read_row or thinkpad_ec_try_read_row hands over  *)
(* with success answers the arguments of that very call, whatever other    *)
(* clients prefetched, abandoned or lost before, and whatever the SMBIOS   *)
(* left in the mailbox.                                                    *)
(***************************************************************************)
RowAnswersRequest ==
  \A c \in Clients :
    pc[c] = "ready" /\ op[c] \in {"read", "try"} /\ ret[c] = "ok"
      => data[c] = row[c]

(***************************************************************************)
(* Between calls a recorded prefetch is backed by the EC: the mailbox has, *)
(* or is being filled with, the answer to the prefetched row.  So a try    *)
(* read finds its own row or nothing yet, never the end of someone else's  *)
(* transaction.                                                            *)
(***************************************************************************)
PrefetchBacked ==
  /\ prefetch_jiffies = "SET"
  /\ sem = Free \/ pc[sem] = "ready"
  => /\ phase \in {"reply", "full"}
     /\ \E p \in PrefetchRows : Key[p] = prefetch_args /\ mailbox = p

(***************************************************************************)
(* "Releasing locks before this happens may cause an EC hang due to        *)
(* firmware bug!"  Unless a request was given up with EIO, the semaphore   *)
(* is free only while the EC is idle or has begun its reply, and the       *)
(* firmware has not been made to hang.                                     *)
(***************************************************************************)
QuietWhenFree ==
  ~silent => /\ ~hung
             /\ sem = Free => phase \in {"idle", "reply", "full"}

(***************************************************************************)
(* A read_row ends in success when the EC answers within the retries: an   *)
(* answer left over from an abandoned prefetch or from the SMBIOS delays   *)
(* it and never makes it fail or retry for ever.                           *)
(***************************************************************************)
ReadsSucceed ==
  \A c \in Clients :
    (~stalls /\ op[c] = "read" /\ pc[c] # "ready")
      ~> (op[c] = "read" /\ pc[c] = "ready" /\ ret[c] = "ok")

-----------------------------------------------------------------------------
(* The protocol as an implementation of EcRowServer.                       *)

Reads == {"read", "try"}

askedBar ==
  [c \in Clients |->
     IF op[c] \in Reads /\ pc[c] # "ready" THEN row[c] ELSE NoRow]

replyBar ==
  [c \in Clients |->
     IF op[c] \in Reads /\ pc[c] = "ready"
     THEN IF ret[c] = "ok" THEN data[c] ELSE Failed
     ELSE NoRow]

Server ==
  INSTANCE EcRowServer WITH holder <- sem, asked <- askedBar, reply <- replyBar

(***************************************************************************)
(* The row functions implement the atomic row server: whatever the mailbox *)
(* goes through, a caller under the lock sees its one request answered or  *)
(* refused in one step, with no other client's request in between.         *)
(***************************************************************************)
ServesRows == Server!Spec

=============================================================================
