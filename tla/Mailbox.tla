------------------------------- MODULE Mailbox -------------------------------
(***************************************************************************)
(* The daemon's mail: events and messages, the stored cursor of each       *)
(* agent, and the operations that write and read them (mcp/send-message,   *)
(* broadcast, broadcast-to-role and get-inbox), over the agents table of   *)
(* module Registry.  Every operation is one SQLite transaction on a single *)
(* thread.  What happens after the transaction (wake-ups, retries) changes *)
(* no mailbox and is not part of this module.                              *)
(*                                                                         *)
(* An event and the message rows that carry its event_id are written and   *)
(* purged together; mail[e] stands for event e and its rows, one for each  *)
(* recipient.  Event ids are AUTOINCREMENT: never reused after a purge.    *)
(***************************************************************************)
EXTENDS Registry

CONSTANT MaxMail  \* bound: messages ever sent

ASSUME MaxMailAssumption == MaxMail \in Nat

VARIABLES
  mail,      \* mail[e]: recipients and role of event e
  aged,      \* events 1..aged are more than 30 days old
  purged,    \* events 1..purged have been deleted
  cursor,    \* cursor[a]: last_processed_event_id of agent_id a
  born,      \* history: the cursor a's row was inserted with
  got,       \* history: got[a], events handed to a by default reads
  again      \* history: <<a, e>> handed out a second time

mailVars == <<mail, aged, purged, cursor>>
historyVars == <<born, got, again>>
vars == <<registryVars, mailVars, historyVars>>

Letter == [to : SUBSET AgentIds, role : Roles \cup {None}]

Events == 1 .. Len(mail)

\* SELECT COALESCE(MAX(event_id), 0) FROM events
MaxEvent == IF purged < Len(mail) THEN Len(mail) ELSE 0

-----------------------------------------------------------------------------
(* Sending *)

\* The reachability gate of every send: last_seen_at within the TTL.
Reachable(n) == Exists(n) /\ agents[n].live

Ids(S) == {agents[n].id : n \in S}

\* events.append and one messages row per recipient, in one transaction.
Insert(recipients, role) ==
  /\ Len(mail) < MaxMail
  /\ mail' = Append(mail, [to |-> Ids(recipients), role |-> role])
  /\ UNCHANGED <<registryVars, aged, purged, cursor, historyVars>>

\* send_message, send_message_by_id and POST /api/send.
Send(from, to) ==
  /\ Exists(from)
  /\ Reachable(to)
  /\ Insert({to}, None)

\* broadcast: everyone else who is reachable.  Its to_role, "*broadcast*", is
\* no agent's role, so it is as good as none.
Broadcast(from) ==
  LET recipients == {n \in Names \ {from} : Reachable(n)}
  IN  /\ Exists(from)
      /\ recipients # {}
      /\ Insert(recipients, None)

BroadcastToRole(from, role) ==
  LET recipients == {n \in Names \ {from} : Reachable(n) /\ agents[n].role = role}
  IN  /\ Exists(from)
      /\ recipients # {}
      /\ Insert(recipients, role)

-----------------------------------------------------------------------------
(* Reading *)

\* The WHERE clause of get_inbox for the agent in row n.
Addressed(n, e) ==
  \/ agents[n].id \in mail[e].to
  \/ mail[e].role # None /\ mail[e].role = agents[n].role

\* mutant: event_id >= cursor.
UnreadFromCursor(n) ==
  {e \in Events : e > purged /\ e >= cursor[agents[n].id] /\ Addressed(n, e)}

Unread(n) ==
  {e \in Events : e > purged /\ e > cursor[agents[n].id] /\ Addressed(n, e)}

\* mutant: the cursor jumps to the newest event, past what LIMIT cut off.
ReadToNewest(n, c) ==
  LET a    == agents[n].id
      page == {e \in Unread(n) : e <= c}
  IN  /\ Exists(n)
      /\ c \in Unread(n)
      /\ cursor' = [cursor EXCEPT ![a] = MaxEvent]
      /\ got' = [got EXCEPT ![a] = @ \cup page]
      /\ again' = again \cup {<<a, e>> : e \in page \cap got[a]}
      /\ UNCHANGED <<registryVars, mail, aged, purged, born>>

\* A default read (since_event_id omitted): the page up to event c, cut there
\* by LIMIT or at the end, and the stored cursor moved to c.  A read with an
\* explicit since_event_id changes nothing.
Read(n, c) ==
  LET a    == agents[n].id
      page == {e \in Unread(n) : e <= c}
  IN  /\ Exists(n)
      /\ c \in Unread(n)
      /\ cursor' = [cursor EXCEPT ![a] = c]
      /\ got' = [got EXCEPT ![a] = @ \cup page]
      /\ again' = again \cup {<<a, e>> : e \in page \cap got[a]}
      /\ UNCHANGED <<registryVars, mail, aged, purged, born>>

-----------------------------------------------------------------------------
(* The agents table, whose rows carry the cursors *)

RowIds == Ids({n \in Names : Exists(n)})

\* A column of the agents table after a step on its rows: an INSERT starts it
\* at `initial`, a DELETE takes it away, an UPDATE leaves it alone.
Column(column, initial, none) ==
  [a \in AgentIds |->
     IF a \notin RowIds' THEN none
     ELSE IF a \in RowIds THEN column[a] ELSE initial]

\* A new row's cursor starts at the newest event.
FollowRows ==
  /\ cursor' = Column(cursor, MaxEvent, 0)
  /\ born' = Column(born, MaxEvent, 0)
  /\ got' = Column(got, {}, {})
  /\ UNCHANGED <<mail, again>>

RegistryStep ==
  /\ RowStep
  /\ FollowRows
  /\ UNCHANGED <<aged, purged>>

TimePasses ==
  /\ MonthPasses
  /\ FollowRows
  /\ aged' = Len(mail)
  /\ UNCHANGED purged

\* The hourly cleanup: mail past 30 days, and Claude rows a month offline.
Cleanup ==
  /\ Purge
  /\ FollowRows
  /\ purged' = aged
  /\ UNCHANGED aged

\* mutant: the watermark migration without its "cursor = 0" predicate.
RestartMovesAll ==
  /\ cursor' = [a \in AgentIds |-> IF a \in RowIds THEN MaxEvent ELSE cursor[a]]
  /\ UNCHANGED <<registryVars, mail, aged, purged, historyVars>>

\* A daemon restart runs applySchema, whose watermark migration moves every
\* cursor still at 0 to the newest event.
Restart ==
  /\ cursor' = [a \in AgentIds |->
                  IF a \in RowIds /\ cursor[a] = 0 THEN MaxEvent ELSE cursor[a]]
  /\ UNCHANGED <<registryVars, mail, aged, purged, historyVars>>

-----------------------------------------------------------------------------
Init ==
  /\ RegistryInit
  /\ mail = <<>>
  /\ aged = 0
  /\ purged = 0
  /\ cursor = [a \in AgentIds |-> 0]
  /\ born = [a \in AgentIds |-> 0]
  /\ got = [a \in AgentIds |-> {}]
  /\ again = {}

Next ==
  \/ RegistryStep
  \/ \E from, to \in Names : Send(from, to)
  \/ \E from \in Names : Broadcast(from)
  \/ \E from \in Names, role \in Roles : BroadcastToRole(from, role)
  \/ \E n \in Names, c \in Events : Read(n, c)
  \/ TimePasses
  \/ Cleanup
  \/ Restart

Spec == Init /\ [][Next]_vars

-----------------------------------------------------------------------------
(* Properties *)

\* Mail, cursors and histories are well formed.
TypeOK ==
  /\ RegistryTypeOK
  /\ mail \in Seq(Letter)
  /\ aged \in 0 .. Len(mail) /\ purged \in 0 .. aged
  /\ cursor \in [AgentIds -> 0 .. Len(mail)]
  /\ born \in [AgentIds -> 0 .. Len(mail)]
  /\ got \in [AgentIds -> SUBSET Events]
  /\ again \subseteq AgentIds \X Events

\* No default read hands out a message a second time, whoever took the row
\* over, however the row went offline and came back, and over restarts.
HandedOutOnce == again = {}

\* A newly registered agent does not see historical mail (agents-repo.ts): no
\* default read hands out a message older than the agent's row, not even one
\* sent to a role the agent has now.
NoHistoricalMail == \A a \in AgentIds : \A e \in got[a] : e > born[a]

\* A message addressed to an agent whose row is still there is handed out,
\* waiting ahead of the cursor, or past its 30 days: paging, takeovers, reaping
\* and resuming skip none.  (Rows inserted while no event existed are left out:
\* their cursor is 0, and the next boot moves it past what they have not read.)
NothingSkipped ==
  \A n \in Names :
    Exists(n) /\ born[agents[n].id] > 0 =>
      \A e \in Events :
        agents[n].id \in mail[e].to =>
          e \in got[agents[n].id] \/ e \in Unread(n) \/ e <= purged

\* The mailbox as its owner may rely on it (module MailboxPromise).
Waiting ==
  [a \in AgentIds |->
     IF a \in RowIds
     THEN {e \in Events : e > purged /\ e > cursor[a] /\ a \in mail[e].to} ELSE {}]

Taken == [a \in AgentIds |-> {e \in got[a] : a \in mail[e].to}]

Promise ==
  INSTANCE MailboxPromise WITH
    Agents <- AgentIds, posted <- Len(mail), old <- aged, waiting <- Waiting, taken <- Taken

\* Tables, cursors, paging, takeover, reaping, cleanup and restarts implement
\* the promise of module MailboxPromise.
KeepsPromise == Promise!PromiseSpec

=============================================================================
