------------------------------ MODULE Sessions ------------------------------
(***************************************************************************)
(* MCP sessions and who may act through them (daemon/src/mcp/transport.ts, *)
(* claude-bind.ts, register-agent.ts, the two Claude hooks).               *)
(*                                                                         *)
(* One Claude conversation is registered by its SessionStart hook, which   *)
(* leaves a capability in a file.  A second hook adds the capability to    *)
(* every tool call, and the daemon binds the MCP session of the call to    *)
(* the conversation's agent.  The conversation may be quit and resumed by  *)
(* another process, its hooks overlap, connections are lost with or        *)
(* without a DELETE, the daemon restarts and its reapers run.  Beside it   *)
(* other clients open sessions, register names and take names over.        *)
(*                                                                         *)
(* Reading the capability and sending the call is one step: a capability   *)
(* replaced in between only makes the call fail, as it does here.  Of the  *)
(* tools only register_agent waits for anything (ps, an app server) before *)
(* it changes the daemon, so it is two steps; the session may be closed or *)
(* bound by then.                                                          *)
(***************************************************************************)
EXTENDS Naturals, FiniteSets

CONSTANTS
  MaxSessions, \* bound: MCP sessions initialised
  MaxMoves,    \* bound: steps of persons, other clients, timers and faults
  MaxOrphans   \* orphanSessionLimit of the daemon

ASSUME BoundsAssumption == {MaxSessions, MaxMoves, MaxOrphans} \subseteq Nat \ {0}

VARIABLES
  mem,      \* the daemon's memory: sess, connections, active, fan, wake,
            \* and as a history late: sessions that registered after their end
  row,      \* the conversation's row: [offline, stale]
  cap,      \* number of its capability in the database; 0: none
  issued,   \* capabilities issued so far
  rows,     \* rows of other agents by name: [id, stale, proxy]; id 0: none
  up,       \* number of the Claude process in which the conversation runs; 0: none
  launches, \* processes started so far
  start,    \* SessionStart hook: "done", "run" or "write"
  ending,   \* SessionEnd hook of the process that quit last: "done", "run" or "post"
  answer,   \* capability the SessionStart hook was given
  idFile,   \* is there a .id file?
  bindFile, \* capability in the .bind file; 0: none
  conn,     \* MCP session the running process uses; 0: none
  created,  \* MCP sessions initialised so far
  moves

daemon == <<mem, row, cap, issued, rows>>
hooks == <<start, ending, answer, idFile, bindFile>>
vars == <<daemon, hooks, up, launches, conn, created, moves>>

Ids == 1 .. MaxSessions
Claude == 1                       \* its agent_id, and its name
Names == 1 .. 3
Agents == 1 .. MaxMoves + 1       \* agent_ids: at most one new one per move
NoRow == [id |-> 0, stale |-> FALSE, proxy |-> FALSE]

\* agent is agentIdHolder; cap is the capability the session was bound with
\* (0: not capability-bound); by is the Claude process it belongs to, 0 for others;
\* asks are its calls of register_agent under way.
Closed == [open |-> FALSE, by |-> 0, agent |-> 0, cap |-> 0, asks |-> {}]

\* What is left of session b once it is closed: as long as a call of it waits,
\* that still refers to its agentIdHolder.
Gone(b) == [Closed EXCEPT !.agent = IF b.asks = {} THEN 0 ELSE b.agent, !.asks = b.asks]

EmptyMemory ==
  [sess |-> [s \in Ids |-> Closed], connections |-> [n \in Names |-> 0],
   active |-> 0, fan |-> [a \in Agents |-> 0], wake |-> 0, late |-> {}]

Open == {s \in Ids : mem.sess[s].open}
Move == moves < MaxMoves /\ moves' = moves + 1

-----------------------------------------------------------------------------
(* The maps of the daemon. *)

Released(m, S) == [n \in Names |-> IF m.connections[n] \in S THEN 0 ELSE m.connections[n]]

\* mutant: the subscription stays
DetachedNever(m, S) == m.wake

DetachedBySession(m, S) == IF m.wake \in S THEN 0 ELSE m.wake

\* mutant: the holder stays
ActiveKept(m, S) == m.active

\* ClaudeBindCapabilities.release: only the holder's own close frees the agent.
ActiveReleased(m, S) ==
  IF m.active \in {s \in S : m.sess[s].cap # 0} THEN 0 ELSE m.active

\* onclose of the transports of sessions S: in whatever order they close, each
\* touches its own entries.  A sink is detached by agent_id, whoever's it is.
Shut(m, S) ==
  [sess |-> [s \in Ids |-> IF s \in S THEN Gone(m.sess[s]) ELSE m.sess[s]],
   connections |-> Released(m, {s \in S : m.sess[s].agent # 0}),
   active |-> ActiveReleased(m, S),
   fan |-> [a \in Agents |-> IF \E s \in S : m.sess[s].agent = a THEN 0 ELSE m.fan[a]],
   wake |-> DetachedBySession(m, S), late |-> m.late]

\* The sessions enforceOrphanSessionLimit closes: the oldest without an agent.
OverLimit(m) ==
  LET orphans == {s \in Ids : m.sess[s].open /\ m.sess[s].agent = 0}
  IN  {s \in orphans : Cardinality({t \in orphans : t >= s}) > MaxOrphans}

\* onRegisterSuccess: the session acts for agent a and its sink is a's.
Attached(m, s, a) ==
  [m EXCEPT !.sess[s].agent = a,
            !.fan = [b \in Agents |-> IF b = a THEN s
                                      ELSE IF b = m.sess[s].agent THEN 0 ELSE m.fan[b]]]

\* RegisterAgentService.register: the session that asked for the name before is closed.
TakenOver(m, s, n) ==
  LET old == m.connections[n]
      left == IF old \notin {0, s} /\ m.sess[old].open THEN Shut(m, {old}) ELSE m
  IN  [left EXCEPT !.connections[n] = s]

Created(m, s, client) ==
  [m EXCEPT !.sess[s] = [Closed EXCEPT !.open = TRUE, !.by = client]]

-----------------------------------------------------------------------------
(* Capabilities. *)

\* mutant: the session bound before stays bound
IssuedBeside(m) == m

Issued(m) == [m EXCEPT !.active = 0]   \* a new capability supersedes the bound session
Revoked(m) == [m EXCEPT !.active = 0]

Online == ~row.offline /\ ~row.stale

\* owns(Claude, s)
Owns(s) == mem.active = s /\ cap # 0 /\ Online

\* mutant: whoever comes last holds the agent
BindsAnyone(token, s) == token # 0 /\ token = cap /\ Online

\* bind(token, s) succeeds
Binds(token, s) == token # 0 /\ token = cap /\ Online /\ mem.active \in {0, s}

\* May the tool call with this token (0: none) of session s proceed?
Admitted(token, s) ==
  LET b == mem.sess[s] IN
  IF b.cap # 0 THEN Owns(s) /\ (token # 0 => Binds(token, s))
               ELSE token # 0 => b.agent = 0 /\ Binds(token, s)

\* What an admitted call leaves in memory: the first one with a token binds.
BoundBy(token, s) ==
  IF token = 0 THEN mem
  ELSE [(IF mem.sess[s].cap = 0 THEN Attached(mem, s, Claude) ELSE mem)
          EXCEPT !.active = s, !.sess[s].cap = token]

-----------------------------------------------------------------------------
(* The Claude process and its hooks. *)

\* SessionStart fires when the conversation is started or resumed ...
Launch ==
  /\ Move /\ up = 0 /\ start = "done"
  /\ up' = launches + 1 /\ launches' = launches + 1 /\ start' = "run" /\ conn' = 0
  /\ UNCHANGED <<created, daemon, ending, answer, idFile, bindFile>>

\* ... and within the running process too (the hook is installed for every source).
Refire ==
  /\ Move /\ up # 0 /\ start = "done" /\ start' = "run"
  /\ UNCHANGED <<created, daemon, ending, answer, idFile, bindFile, up, launches, conn>>

\* Whether the session in use gets its DELETE is up to the client.
Quit ==
  /\ Move /\ up # 0 /\ start = "done" /\ ending = "done"
  /\ up' = 0 /\ conn' = 0 /\ ending' = "run"
  /\ \/ mem' = mem
     \/ conn \in Open /\ mem' = Shut(mem, {conn})
  /\ UNCHANGED <<created, row, cap, issued, rows, start, answer, idFile, bindFile, launches>>

\* POST /api/register with bind_mcp: the row is online, a new capability is in force
Registered ==
  /\ row' = [offline |-> FALSE, stale |-> FALSE]
  /\ issued' = issued + 1 /\ cap' = issued + 1
  /\ mem' = Issued(mem)

StartPost ==
  /\ start = "run" /\ start' = "write"
  /\ Registered /\ answer' = cap'
  /\ UNCHANGED <<created, rows, ending, idFile, bindFile, up, launches, conn, moves>>

StartWrite ==
  /\ start = "write" /\ start' = "done"
  /\ idFile' = TRUE /\ bindFile' = answer
  /\ UNCHANGED <<created, daemon, ending, answer, up, launches, conn, moves>>

\* The daemon cannot be reached: the hook ends and nothing tries again.
StartFails ==
  /\ Move /\ start = "run" /\ start' = "done"
  /\ UNCHANGED <<created, daemon, ending, answer, idFile, bindFile, up, launches, conn>>

EndRead ==
  /\ ending = "run"
  /\ ending' = IF idFile THEN "post" ELSE "done"
  /\ idFile' = FALSE /\ bindFile' = IF idFile THEN 0 ELSE bindFile
  /\ UNCHANGED <<created, daemon, start, answer, up, launches, conn, moves>>

\* POST /api/deregister with retain_mailbox: markClaudeSessionOffline, revoke
EndPost ==
  /\ ending = "post" /\ ending' = "done"
  /\ row' = [row EXCEPT !.offline = TRUE]
  /\ cap' = 0 /\ mem' = Revoked(mem)
  /\ UNCHANGED <<created, issued, rows, start, answer, idFile, bindFile, up, launches, conn, moves>>

EndFails ==
  /\ Move /\ ending = "post" /\ ending' = "done"
  /\ UNCHANGED <<created, daemon, start, answer, idFile, bindFile, up, launches, conn>>

-----------------------------------------------------------------------------
(* Requests to /mcp. *)

\* initialize: a new session, and the limit on those without an agent
Initialize(client) ==
  LET m == Created(mem, created + 1, client)
  IN  /\ created < MaxSessions /\ created' = created + 1
      /\ mem' = Shut(m, OverLimit(m))

\* The MCP client of the running process (external) initialises when it has no
\* session or its session is answered 404 unknown_session.
Connect ==
  /\ up # 0 /\ conn \notin Open
  /\ Initialize(up) /\ conn' = created'
  /\ UNCHANGED <<row, cap, issued, rows, hooks, up, launches, moves>>

\* A tool call of the conversation, with what the PreToolUse hook finds.  An
\* admitted call of a bound session touches the row; a refused one changes nothing.
Call ==
  /\ conn \in Open /\ Admitted(bindFile, conn)
  /\ mem' = BoundBy(bindFile, conn)
  /\ row' = IF mem'.sess[conn].agent = Claude THEN [row EXCEPT !.stale = FALSE] ELSE row
  /\ UNCHANGED <<created, cap, issued, rows, hooks, up, launches, conn, moves>>

ConnectOther ==
  /\ Move /\ Initialize(0)
  /\ UNCHANGED <<row, cap, issued, rows, hooks, up, launches, conn>>

\* AgentsRepo.register without a session key: the conversation's row is not taken
\* over, its name gets the first suffix that is free or whose agent is silent.
Granted(n) ==
  IF n # Claude THEN n
  ELSE CHOOSE k \in Names \ {Claude} :
         /\ rows[k].id = 0 \/ rows[k].stale
         /\ \A j \in Names \ {Claude} : j < k => rows[j].id # 0 /\ ~rows[j].stale

CanGrant(n) == n = Claude => \E k \in Names \ {Claude} : rows[k].id = 0 \/ rows[k].stale

\* register_agent by a session without a capability, up to its awaits (ui_pid
\* preflight, OpenCode, the Codex app server).  A call is known by the agent_id it
\* gives to a new row; its other arguments are chosen where they are first used.
Ask(s) ==
  /\ Move /\ s \in Open /\ mem.sess[s].cap = 0
  /\ mem' = [mem EXCEPT !.sess[s].asks = @ \cup {moves + 2}]
  /\ UNCHANGED <<created, row, cap, issued, rows, hooks, up, launches, conn>>

Without(b, r) == [b EXCEPT !.asks = @ \ {r}]

\* What the end of call r leaves of session s
Ended(m, s, r) ==
  LET b == Without(m.sess[s], r)
  IN  [m EXCEPT !.sess[s] = IF b.open THEN b ELSE Gone(b),
                !.late = IF b.open THEN @ ELSE @ \cup {s}]

\* ... and after them: neither the session nor its capability is looked at again.
\* A call that fails, or waits for ever, is one that never gets here.
Register(s, r, n, proxy) ==
  LET g == Granted(n)
      id == IF rows[g].id # 0 THEN rows[g].id ELSE r
  IN  /\ CanGrant(n)
      /\ mem' = Ended(Attached(TakenOver(mem, s, n), s, id), s, r)
      /\ rows' = [rows EXCEPT ![g] = [id |-> id, stale |-> FALSE, proxy |-> proxy]]
      /\ UNCHANGED <<created, row, cap, issued, hooks, up, launches, conn, moves>>

RowsOf(s) == {n \in Names \ {Claude} : mem.sess[s].agent = rows[n].id /\ rows[n].id # 0}

\* unregister_self
Unregister(s) ==
  /\ Move /\ s \in Open
  /\ \E n \in RowsOf(s) : rows' = [rows EXCEPT ![n] = NoRow]
  /\ mem' = [mem EXCEPT !.connections = Released(mem, {s}),
                        !.fan[mem.sess[s].agent] = 0,
                        !.wake = DetachedBySession(mem, {s}),
                        !.sess[s].agent = 0]
  /\ UNCHANGED <<created, row, cap, issued, hooks, up, launches, conn>>

\* subscribe_channel_wake of a channel proxy
Subscribe(s) ==
  /\ Move /\ s \in Open /\ \E n \in RowsOf(s) : rows[n].proxy
  /\ mem' = [mem EXCEPT !.wake = s]
  /\ UNCHANGED <<created, row, cap, issued, rows, hooks, up, launches, conn>>

\* DELETE, perhaps long after its client went away
Delete(s) ==
  /\ Move /\ s \in Open /\ mem' = Shut(mem, {s})
  /\ UNCHANGED <<created, row, cap, issued, rows, hooks, up, launches, conn>>

\* The client of the running process reconnects without a DELETE.
Abandon ==
  /\ Move /\ conn \in Open /\ conn' = 0
  /\ UNCHANGED <<created, daemon, hooks, up, launches>>

-----------------------------------------------------------------------------
(* Timers, heartbeats and restarts. *)

\* reapOrphanSessions: sessions without an agent that were idle, then the limit
ReapOrphans ==
  /\ Move
  /\ \E idle \in SUBSET {s \in Open : mem.sess[s].agent = 0} :
       LET m == Shut(mem, idle)
       IN  mem' = Shut(m, OverLimit(m)) /\ mem' # mem
  /\ UNCHANGED <<created, row, cap, issued, rows, hooks, up, launches, conn>>

\* 180 seconds without a touch
Age ==
  /\ Move
  /\ \/ row' = [row EXCEPT !.stale = TRUE] /\ rows' = rows
     \/ /\ row' = row
        /\ \E n \in Names \ {Claude} :
             rows[n].id # 0 /\ rows' = [rows EXCEPT ![n].stale = TRUE]
  /\ UNCHANGED <<created, mem, cap, issued, hooks, up, launches, conn>>

\* deleteOlderThan: the conversation's row is kept, offline and without capability
ReapRows ==
  /\ row' = [row EXCEPT !.offline = @ \/ row.stale]
  /\ cap' = IF row.stale THEN 0 ELSE cap
  /\ rows' = [n \in DOMAIN rows |-> IF rows[n].stale THEN NoRow ELSE rows[n]]
  /\ <<row', cap', rows'>> # <<row, cap, rows>>
  /\ UNCHANGED <<created, mem, issued, hooks, up, launches, conn, moves>>

\* POST /api/heartbeat of the mod: a touch, also of a row that is offline
Heartbeat ==
  /\ up # 0 /\ idFile /\ row.stale
  /\ row' = [row EXCEPT !.stale = FALSE]
  /\ UNCHANGED <<created, mem, cap, issued, rows, hooks, up, launches, conn, moves>>

Restart ==
  /\ Move /\ mem # EmptyMemory /\ mem' = EmptyMemory
  /\ UNCHANGED <<created, row, cap, issued, rows, hooks, up, launches, conn>>

-----------------------------------------------------------------------------
\* The conversation was registered before and is away.
Init ==
  /\ mem = EmptyMemory
  /\ row = [offline |-> TRUE, stale |-> TRUE] /\ cap = 0 /\ issued = 0
  /\ rows = [n \in Names \ {Claude} |-> NoRow]
  /\ up = 0 /\ launches = 0 /\ start = "done" /\ ending = "done" /\ answer = 0
  /\ idFile = FALSE /\ bindFile = 0 /\ conn = 0 /\ created = 0 /\ moves = 0

Next ==
  \/ Launch \/ Refire \/ Quit
  \/ StartPost \/ StartWrite \/ StartFails \/ EndRead \/ EndPost \/ EndFails
  \/ Connect \/ Call \/ ConnectOther \/ Abandon
  \/ \E s \in Ids :
       \/ Delete(s) \/ Unregister(s) \/ Subscribe(s) \/ Ask(s)
       \/ \E r \in mem.sess[s].asks, n \in Names, proxy \in BOOLEAN : Register(s, r, n, proxy)
  \/ ReapOrphans \/ Age \/ ReapRows \/ Heartbeat \/ Restart

\* Hooks run to their end, and a Claude that runs keeps calling.
Spec ==
  /\ Init /\ [][Next]_vars
  /\ WF_vars(StartPost) /\ WF_vars(StartWrite) /\ WF_vars(EndRead) /\ WF_vars(EndPost)
  /\ WF_vars(Connect) /\ WF_vars(Call)

-----------------------------------------------------------------------------
(* Properties. *)

\* A session that is gone is in none of the daemon's maps ("so its connections
\* Map does not retain dead entries", transport.ts), on whatever way it went: it
\* holds no Claude agent and no channel subscription, and a name or a sink only if
\* a register_agent of its own came to its end after it did.
NothingDangles ==
  LET held == {mem.active, mem.wake}
      registered == {mem.connections[n] : n \in Names} \cup {mem.fan[a] : a \in Agents}
  IN  held \subseteq {0} \cup Open /\ registered \subseteq {0} \cup Open \cup mem.late

\* "It can no longer act as this identity because its capability was replaced"
\* (ClaudeBindCapabilities.issue): the session that may act for the conversation
\* was bound with the capability now in force, and no other session may.
ActsByCurrentCapability ==
  \A s \in Open : mem.sess[s].cap # 0 /\ Owns(s) => mem.sess[s].cap = cap

\* A session that holds the conversation's agent loses it only with its
\* capability or by its own end: no connection, of whatever process, that comes
\* or goes beside it takes the agent away.
StandingKept ==
  [][mem.active # 0 /\ cap # 0 /\ mem'.active # mem.active
       => cap' # cap \/ ~mem'.sess[mem.active].open]_vars

Acts == conn \in Open /\ mem.sess[conn].cap # 0 /\ mem.sess[conn].agent = Claude /\ Owns(conn)

\* A running conversation that has the capability in force.  Excluded by name:
\* a session in use that was bound with an earlier capability or registered by
\* hand, before it was bound or by a call that was under way then, and an
\* abandoned session of the same process that still holds the agent.
Ready ==
  /\ up # 0 /\ bindFile # 0 /\ bindFile = cap /\ Online
  /\ conn \in Open /\ ~Acts => mem.sess[conn].agent = 0 /\ mem.sess[conn].cap = 0
  /\ mem.active \in Open \ {conn} => mem.sess[mem.active].by # up
  /\ created < MaxSessions \/ conn \in Open

\* A conversation that was resumed acts for its agent again, whatever sessions
\* its former processes left behind.
ResumedActs == Ready ~> (Acts \/ ~Ready)

=============================================================================
