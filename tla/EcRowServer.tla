----------------------------- MODULE EcRowServer ----------------------------
(***************************************************************************)
(* What src/tp_smapi/thinkpad_ec.h promises its users: under the lock, a   *)
(* request for a row is answered, in one indivisible step, with that row,  *)
(* or refused; nobody else's request comes in between.  Nothing is said of *)
(* mailboxes, prefetching or retries.                                      *)
(***************************************************************************)
CONSTANTS Clients, Rows, Free, NoRow, Failed

VARIABLES
  holder,  \* who has the lock, or Free
  asked,   \* the row each client is waiting for, or NoRow
  reply    \* the answer to each client's last request, Failed, or NoRow

vars == <<holder, asked, reply>>

Init ==
  /\ holder = Free
  /\ asked = [c \in Clients |-> NoRow]
  /\ reply = [c \in Clients |-> NoRow]

Acquire(c) ==
  /\ holder = Free
  /\ holder' = c
  /\ UNCHANGED <<asked, reply>>

Ask(c, r) ==
  /\ holder = c /\ asked[c] = NoRow
  /\ asked' = [asked EXCEPT ![c] = r]
  /\ reply' = [reply EXCEPT ![c] = NoRow]
  /\ UNCHANGED holder

Answer(c) ==
  /\ holder = c /\ asked[c] # NoRow
  /\ asked' = [asked EXCEPT ![c] = NoRow]
  /\ \/ reply' = [reply EXCEPT ![c] = asked[c]]
     \/ reply' = [reply EXCEPT ![c] = Failed]
  /\ UNCHANGED holder

\* A try read of a row nobody prefetched is refused on the spot.
Refuse(c) ==
  /\ holder = c /\ asked[c] = NoRow
  /\ reply' = [reply EXCEPT ![c] = Failed]
  /\ UNCHANGED <<holder, asked>>

Discard(c) ==
  /\ holder = c /\ asked[c] = NoRow
  /\ reply' = [reply EXCEPT ![c] = NoRow]
  /\ UNCHANGED <<holder, asked>>

Release(c) ==
  /\ holder = c /\ asked[c] = NoRow
  /\ holder' = Free
  /\ reply' = [reply EXCEPT ![c] = NoRow]
  /\ UNCHANGED asked

Next ==
  \E c \in Clients :
    \/ Acquire(c) \/ Release(c) \/ Answer(c) \/ Refuse(c) \/ Discard(c)
    \/ \E r \in Rows : Ask(c, r)

Spec == Init /\ [][Next]_vars

=============================================================================
