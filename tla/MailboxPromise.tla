--------------------------- MODULE MailboxPromise ---------------------------
(***************************************************************************)
(* What the bus promises of a mailbox, without its table, cursors or       *)
(* watermarks.  A message posted to a set of agents waits in the mailbox   *)
(* of each until that agent takes it.  An agent takes messages in the      *)
(* order they were posted, each once, leaving none behind.  A message is   *)
(* lost to an agent only when its mailbox closes, when the message is past *)
(* its retention, or when the daemon boots before the agent has taken      *)
(* anything at all.                                                        *)
(***************************************************************************)
EXTENDS Naturals

CONSTANT Agents  \* the agents that may own a mailbox

VARIABLES
  posted,   \* number of messages posted so far
  old,      \* messages 1..old are past their retention
  waiting,  \* waiting[a]: messages in a's mailbox
  taken     \* taken[a]: messages a has taken

promiseVars == <<posted, old, waiting, taken>>

\* Messages posted earlier wait for nobody who is here now.
PromiseInit ==
  /\ posted \in Nat
  /\ old \in 0 .. posted
  /\ waiting = [a \in Agents |-> {}]
  /\ taken = [a \in Agents |-> {}]

Post(S) ==
  /\ posted' = posted + 1
  /\ waiting' = [a \in Agents |-> waiting[a] \cup (IF a \in S THEN {posted'} ELSE {})]
  /\ UNCHANGED <<old, taken>>

\* a takes everything up to and including message c, in one atomic read (which
\* is nothing when none of it is a's own).
Take(a, c) ==
  LET batch == {e \in waiting[a] : e <= c}
  IN  /\ UNCHANGED <<posted, old>>
      /\ waiting' = [waiting EXCEPT ![a] = @ \ batch]
      /\ taken' = [taken EXCEPT ![a] = @ \cup batch]

\* A month passes: everything posted is past its retention.
Age ==
  /\ old' = posted
  /\ UNCHANGED <<posted, waiting, taken>>

\* Messages up to k are deleted, and the mailboxes of S close for good.
Expire(k, S) ==
  /\ UNCHANGED <<posted, old>>
  /\ waiting' = [a \in Agents |-> IF a \in S THEN {} ELSE {e \in waiting[a] : e > k}]
  /\ taken' = [a \in Agents |-> IF a \in S THEN {} ELSE taken[a]]

\* A daemon boot may drop the backlog of agents that have taken nothing yet.
Boot(S) ==
  /\ UNCHANGED <<posted, old, taken>>
  /\ \A a \in S : taken[a] = {}
  /\ waiting' = [a \in Agents |-> IF a \in S THEN {} ELSE waiting[a]]

PromiseNext ==
  \/ Age
  \/ \E S \in SUBSET Agents : Post(S)
  \/ \E a \in Agents : \E c \in 1 .. posted : Take(a, c)
  \/ \E k \in 0 .. old, S \in SUBSET Agents : Expire(k, S)
  \/ \E S \in SUBSET Agents : Boot(S)

PromiseSpec == PromiseInit /\ [][PromiseNext]_promiseVars
=============================================================================
