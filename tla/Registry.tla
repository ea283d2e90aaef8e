------------------------------ MODULE Registry ------------------------------
(***************************************************************************)
(* The daemon's `agents` table: who is registered under which name, which  *)
(* session owns the row, and when a row is marked offline, reaped or       *)
(* purged (daemon/src/storage/agents-repo.ts and the timers and REST       *)
(* handlers that drive it).                                                *)
(*                                                                         *)
(* The identity (device, team, name) is a unique index, so for one device  *)
(* and one team the table is a function of the name.  Every method of      *)
(* AgentsRepo is synchronous SQLite on a single thread: each is one step.  *)
(* Clocks are abstracted to what the code compares them with: `live` is    *)
(* "last_seen_at is at most 180 s old", `offline` is whether offline_since *)
(* is set and, if so, whether that is more than 30 days ago.               *)
(***************************************************************************)
EXTENDS Naturals, Sequences, FiniteSets

CONSTANTS
  Names,        \* the names an agent of this device and team may hold
  Candidates,   \* Candidates[n]: the names n-2, n-3, ... in the order tried
  RandomNames,  \* names with a random suffix, when every candidate is held
  ClaudeKeys,   \* session keys of Claude Code sessions
  OtherKeys,    \* session keys of the other harnesses (Pi, OpenCode, Codex)
  Roles,        \* the roles agents register with
  Requests,     \* the registrations the harnesses send
  MaxAgents,    \* bound: rows ever inserted
  None          \* SQL NULL

Keys == ClaudeKeys \cup OtherKeys
Kinds == {"claude-code", "other"}
AgentIds == 1 .. MaxAgents

Request ==
  [name : Names, kind : Kinds, key : Keys \cup {None},
   mode : {"prefer", "exact"}, role : Roles]

(***************************************************************************)
(* A session key is minted by one harness: a Claude registration never     *)
(* carries the key of another harness, nor the other way round.            *)
(***************************************************************************)
ASSUME NamesAssumption ==
  /\ Candidates \in [Names -> Seq(Names)]
  /\ RandomNames \subseteq Names
ASSUME KeysAssumption ==
  /\ ClaudeKeys \cap OtherKeys = {}
  /\ None \notin Keys
  /\ None \notin Roles
ASSUME RequestsAssumption ==
  /\ Requests \subseteq Request
  /\ \A q \in Requests : q.key \in ClaudeKeys => q.kind = "claude-code"
  /\ \A q \in Requests : q.key \in OtherKeys => q.kind = "other"
ASSUME MaxAgentsAssumption == MaxAgents \in Nat

VARIABLES
  agents,  \* the table: name -> row, Absent where there is no row
  nextId   \* the agent_id the next INSERT uses (randomUUID: never reused)

registryVars == <<agents, nextId>>

Row ==
  [id : Nat, kind : Kinds, key : Keys \cup {None}, role : Roles \cup {None},
   live : BOOLEAN, offline : {"no", "recent", "month"}]

Absent ==
  [id |-> 0, kind |-> "other", key |-> None, role |-> None,
   live |-> FALSE, offline |-> "no"]

Exists(n) == agents[n].id # 0

\* A keyed Claude row: a mailbox kept for the session to come back to.
Retained(row) == row.kind = "claude-code" /\ row.key # None

\* The caller is the session that owns the row.
SameSession(row, q) ==
  /\ q.key # None
  /\ row.key = q.key
  /\ row.kind = "claude-code" => q.kind = "claude-code"

-----------------------------------------------------------------------------
(* register *)

\* mutant: the lookup by session_key also waits for `prefer` for Claude sessions.
OwnedPreferOnly(q) ==
  {n \in Names : /\ Exists(n)
                 /\ q.key # None /\ agents[n].key = q.key
                 /\ q.mode = "prefer"}

\* Rows the caller's session already owns: any mode for Claude, else prefer.
Owned(q) ==
  {n \in Names : /\ Exists(n)
                 /\ q.key # None /\ agents[n].key = q.key
                 /\ IF q.kind = "claude-code" THEN agents[n].kind = "claude-code"
                                              ELSE q.mode = "prefer"}

\* The name register starts from.  The query has no ORDER BY: with several
\* owned rows, SQLite may return any of them.
Targets(q) == IF Owned(q) # {} THEN Owned(q) ELSE {q.name}

\* mutant: only retained rows are protected.
ConflictIfRetained(n, q) ==
  /\ Exists(n)
  /\ ~SameSession(agents[n], q)
  /\ Retained(agents[n])

\* The row is someone else's and may not be taken over.
Conflict(n, q) ==
  /\ Exists(n)
  /\ q.key # None \/ q.mode = "exact" \/ Retained(agents[n])
  /\ ~SameSession(agents[n], q)
  /\ agents[n].live \/ Retained(agents[n])

\* mutant: allocateName without its `continue` on retained rows.
UsableWhenStale(n, q) ==
  \/ ~Exists(n)
  \/ SameSession(agents[n], q)
  \/ ~agents[n].live

Usable(n, q) ==
  \/ ~Exists(n)
  \/ SameSession(agents[n], q)
  \/ ~Retained(agents[n]) /\ ~agents[n].live

\* allocateName: the first usable candidate, else a random suffix nobody holds.
Allocated(q) ==
  LET tries  == Candidates[q.name]
      usable == {i \in 1 .. Len(tries) : Usable(tries[i], q)}
  IN  IF usable # {}
      THEN {tries[i] : i \in {j \in usable : \A k \in usable : j <= k}}
      ELSE {n \in RandomNames : ~Exists(n)}

Inserted(q) ==
  [id |-> nextId, kind |-> q.kind, key |-> q.key, role |-> q.role,
   live |-> TRUE, offline |-> "no"]

Updated(row, q) ==
  [row EXCEPT !.kind = q.kind,
              !.key = IF q.key # None THEN q.key ELSE @,
              !.role = q.role,
              !.live = TRUE,
              !.offline = IF q.kind = "claude-code" /\ q.key # None THEN "no" ELSE @]

WriteRow(n, q) ==
  /\ ~Exists(n) => nextId <= MaxAgents
  /\ agents' = [agents EXCEPT ![n] = IF Exists(n) THEN Updated(@, q) ELSE Inserted(q)]
  /\ nextId' = IF Exists(n) THEN nextId ELSE nextId + 1

\* An `exact` request in conflict is refused (409 name_taken): no step.
Register(q) ==
  \E n \in Targets(q) :
    \/ ~Conflict(n, q) /\ WriteRow(n, q)
    \/ Conflict(n, q) /\ q.mode = "prefer" /\ \E m \in Allocated(q) : WriteRow(m, q)

-----------------------------------------------------------------------------
(* The other operations on a row *)

\* touch: POST /api/heartbeat, and the end of every MCP tool call.
Heartbeat(n) ==
  /\ Exists(n)
  /\ agents' = [agents EXCEPT ![n].live = TRUE]
  /\ UNCHANGED nextId

\* bind_channel makes the caller's row a Claude row.
BindChannel(n) ==
  /\ Exists(n)
  /\ agents' = [agents EXCEPT ![n].kind = "claude-code"]
  /\ UNCHANGED nextId

\* POST /api/deregister with retain_mailbox, sent when a Claude session ends.
Retain(n) ==
  /\ Exists(n) /\ Retained(agents[n])
  /\ agents' = [agents EXCEPT ![n].offline = IF @ = "no" THEN "recent" ELSE @]
  /\ UNCHANGED nextId

\* POST /api/deregister without it, and unregister_self: the row is deleted.
Deregister(n) ==
  /\ Exists(n)
  /\ agents' = [agents EXCEPT ![n] = Absent]
  /\ UNCHANGED nextId

-----------------------------------------------------------------------------
(* Time and the daemon's timers *)

\* More than 180 s pass without a sign of life from n.
Lapse(n) ==
  /\ Exists(n) /\ agents[n].live
  /\ agents' = [agents EXCEPT ![n].live = FALSE]
  /\ UNCHANGED nextId

\* Thirty days pass: what was offline is so for a month, nobody is fresh.
MonthPasses ==
  /\ agents' = [n \in Names |->
                  [agents[n] EXCEPT !.live = FALSE,
                                    !.offline = IF @ = "no" THEN "no" ELSE "month"]]
  /\ UNCHANGED nextId

\* mutant: the reaper skips keyed Claude rows altogether.
ReapedSparesClaude(row) ==
  IF row.live \/ Retained(row) THEN row ELSE Absent

\* The reaper's row update: keyed Claude rows are kept, marked offline.
Reaped(row) ==
  IF row.live THEN row
  ELSE IF Retained(row)
       THEN [row EXCEPT !.offline = IF @ = "no" THEN "recent" ELSE @]
       ELSE Absent

Reap ==
  /\ agents' = [n \in Names |-> Reaped(agents[n])]
  /\ UNCHANGED nextId

\* The hourly cleanup's part on agents: keyed Claude rows a month offline.
Purgeable(row) == Retained(row) /\ row.offline = "month"

Purge ==
  /\ agents' = [n \in Names |-> IF Purgeable(agents[n]) THEN Absent ELSE agents[n]]
  /\ UNCHANGED nextId

-----------------------------------------------------------------------------
RegistryInit ==
  /\ agents = [n \in Names |-> Absent]
  /\ nextId = 1

\* The operations that touch no message.
RowStep ==
  \/ \E q \in Requests : Register(q)
  \/ \E n \in Names : Heartbeat(n)
  \/ \E n \in Names : BindChannel(n)
  \/ \E n \in Names : Retain(n)
  \/ \E n \in Names : Deregister(n)
  \/ \E n \in Names : Lapse(n)
  \/ Reap

RegistryNext == RowStep \/ MonthPasses \/ Purge

\* setInterval drives the reaper for as long as the daemon runs.
RegistrySpec == RegistryInit /\ [][RegistryNext]_registryVars /\ WF_registryVars(Reap)
-----------------------------------------------------------------------------
(* Properties *)

TableOK ==
  /\ agents \in [Names -> Row]
  /\ nextId \in 1 .. MaxAgents + 1

AbsentIsBlank == \A n \in Names : ~Exists(n) => agents[n] = Absent

\* The table holds well-formed rows, an id no INSERT has used yet, and nothing
\* under a name that no agent holds: no late heartbeat or mark revives a row.
RegistryTypeOK == TableOK /\ AbsentIsBlank

\* A Claude session owns at most one mailbox: registering again, under any
\* name, comes back to the row it has (register's lookup by session_key), so
\* its mail never splits over two rows.
OneMailboxPerSession ==
  \A m, n \in Names :
    agents[m].key = agents[n].key /\ agents[m].key \in ClaudeKeys => m = n

\* Only a keyed Claude row is ever marked offline.  Nothing but that session's
\* own register clears the mark, so another agent that came to own the row
\* would be listed offline for good.
OfflineIsRetained ==
  \A n \in Names : agents[n].offline # "no" => Retained(agents[n])

\* A retained mailbox keeps its row, its agent_id and its owner through every
\* registration, claim, takeover and reaper sweep of others; the row goes only
\* when it is deregistered, or purged after a month offline.
RetainedMailboxKept ==
  [][\A n \in Names :
       Exists(n) /\ Retained(agents[n]) =>
         \/ /\ agents'[n].id = agents[n].id
            /\ agents'[n].key = agents[n].key
            /\ Retained(agents'[n])
         \/ Deregister(n)
         \/ Purge /\ agents[n].offline = "month"]_registryVars

\* A name a live session holds is never handed to another session: while the
\* row is live and keyed, only a deregister changes its agent_id or its key
\* (the legacy keyless takeover of register keeps both), and the purge, which
\* looks at offline_since alone, also of a session that came back.
LiveNameKept ==
  [][\A n \in Names :
       agents[n].live /\ agents[n].key # None =>
         \/ agents'[n].id = agents[n].id /\ agents'[n].key = agents[n].key
         \/ Deregister(n)
         \/ Purge]_registryVars

\* An agent that stops showing signs of life does not stay listed as present:
\* its row is reaped or marked offline, unless it shows up again first.
StaleSettles ==
  \A n \in Names :
    (Exists(n) /\ ~agents[n].live) ~>
      (~Exists(n) \/ agents[n].live \/ agents[n].offline # "no")

=============================================================================
