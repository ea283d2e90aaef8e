------------------------------ MODULE Plugins ------------------------------
(***************************************************************************)
(* How the plugins of the other harnesses keep their agents on the bus:    *)
(* the OpenCode v1 plugin (assets/plugins/xats-register.ts), the OpenCode  *)
(* v2 plugin (xats-register-v2.ts) and the Pi extension (assets/pi/xats.ts)*)
(* against the daemon's table of agents, which is Registry.                *)
(*                                                                         *)
(* Every request to the daemon is asynchronous: an action sends it and     *)
(* another is its answer, by when sessions may have changed, other         *)
(* requests been answered or the plugin been closed.  The daemon's part    *)
(* and the handler of the answer are one step.  v1 and Pi have one agent   *)
(* for the process, v2 one for each session of its location.               *)
(***************************************************************************)
EXTENDS Registry

CONSTANTS
  Processes,   \* instances of a plugin, each loaded once
  Setups,      \* which plugin each process runs, and is its XATS_NAME set?
  Opens,       \* Opens[p]: the sessions opened in p
  Base,        \* Base[s]: the name computed for session s
  Placeholder, \* Placeholder[p]: the random name of p, for v1 without a session
  Wanted,      \* names claimed, and the one XATS_NAME pins
  Solo,        \* the agent of v1 and Pi
  MaxMoves,    \* bound: faults and what users do after loading
  MaxFaults    \* bound: crashes, sleeps, lost requests and answers

Sessions == OtherKeys
Tabs == Sessions \cup {Solo}

ASSUME PluginsAssumption ==
  /\ Setups \subseteq [Processes -> [harness : {"v1", "v2", "pi"}, pinned : BOOLEAN]]
  /\ Opens \in [Processes -> SUBSET Sessions]
  /\ Base \in [Sessions -> Names] /\ Placeholder \in [Processes -> Names]
  /\ Wanted \subseteq Names /\ Wanted # {} /\ Solo \notin Keys \cup {None}
  /\ "worker" \in Roles
  /\ {MaxMoves, MaxFaults} \subseteq Nat

VARIABLES
  setup,   \* the setup there is
  stage,   \* "off", "loading", "on" or "closed"
  key,     \* the session of v1 and Pi
  own,     \* own[p][t]: the identity p takes the agent of t to have
  listed,  \* the sessions in v2's map `agents`
  timer,   \* does v1 or Pi send heartbeats?
  calls,   \* requests under way
  bound,   \* names.json: the name bound to a session
  moves, faults,
  given,   \* history: the ids the daemon answered p
  excused  \* history: did a session of v2 go, or did it close, with an answer still to come?

procVars == <<stage, key, own, listed, timer>>
pastVars == <<given, excused>>
pluginsVars == <<registryVars, setup, procVars, calls, bound, moves, faults, pastVars>>

Identity == [id : Nat, name : Names \cup {None}, mode : {"prefer", "exact"}]
Unknown == [id |-> 0, name |-> None, mode |-> "prefer"]

harness[p \in Processes] == setup[p].harness

Move == moves + faults < MaxMoves /\ moves' = moves + 1
Fault == faults < MaxFaults /\ moves + faults < MaxMoves /\ faults' = faults + 1

-----------------------------------------------------------------------------
(* Identities and requests *)

\* resolveIdentity (v1, Pi): XATS_NAME, a claimed name, or the computed one.
Resolved(p, s) ==
  CASE setup[p].pinned -> [id |-> own[p][Solo].id, name |-> CHOOSE n \in Wanted : TRUE, mode |-> "exact"]
    [] ~setup[p].pinned /\ bound[s] # None -> [id |-> own[p][Solo].id, name |-> bound[s], mode |-> "exact"]
    [] OTHER -> [id |-> own[p][Solo].id, mode |-> "prefer",
                 name |-> IF s = None THEN Placeholder[p] ELSE Base[s]]

\* identity (v2): a claimed name comes first, and XATS_NAME is only a prefix.
ResolvedV2(p, s) ==
  IF bound[s] # None THEN [id |-> 0, name |-> bound[s], mode |-> "exact"]
  ELSE [id |-> 0, name |-> Base[s], mode |-> IF setup[p].pinned THEN "exact" ELSE "prefer"]

Ask(i, s) ==
  [name |-> i.name, kind |-> "other", key |-> s, mode |-> i.mode, role |-> "worker"]

\* A request: what it asks, for which agent, the id to give up afterwards, and
\* whether v2 has let go of the agent since.
Call(p, op, t, q, prev) ==
  [proc |-> p, op |-> op, tab |-> t, q |-> q, prev |-> prev, orphan |-> FALSE]
Registering(p, t, i, s, prev) == Call(p, "register", t, Ask(i, s), prev)
Deregistering(p, i) == Call(p, "deregister", Solo, None, i)
CallsOf(p) == {c \in calls : c.proc = p}
Leave(p, ids) == {Deregistering(p, i) : i \in ids \ {0}}

RowOf(i) == {n \in Names : i # 0 /\ agents[n].id = i}

\* The ids p keeps alive.
Beating(p) ==
  (IF harness[p] = "v2" THEN {own[p][s].id : s \in listed[p]}
   ELSE IF timer[p] THEN {own[p][Solo].id} ELSE {}) \ {0}

-----------------------------------------------------------------------------
(* OpenCode v1 *)

\* The plugin is loaded, with the latest session there is, if any.
V1Load(p, s) ==
  /\ harness[p] = "v1" /\ stage[p] = "off"
  /\ stage' = [stage EXCEPT ![p] = "loading"]
  /\ key' = [key EXCEPT ![p] = s]
  /\ own' = [own EXCEPT ![p][Solo] = Resolved(p, s)]
  /\ calls' = calls \cup {Registering(p, Solo, Resolved(p, s), s, 0)}
  /\ UNCHANGED <<registryVars, setup, listed, timer, bound, moves, faults, pastVars>>

\* applySession, on an event of another session; calls of it may overlap.
V1Event(p, s) ==
  /\ harness[p] = "v1" /\ stage[p] = "on" /\ key[p] # s
  /\ Move
  /\ key' = [key EXCEPT ![p] = s]
  /\ own' = [own EXCEPT ![p][Solo] = Resolved(p, s)]
  /\ calls' = calls \cup {Registering(p, Solo, Resolved(p, s), s, own[p][Solo].id)}
  /\ UNCHANGED <<registryVars, setup, stage, listed, timer, bound, faults, pastVars>>

V1Dispose(p) ==
  /\ harness[p] = "v1" /\ stage[p] = "on" /\ Move
  /\ stage' = [stage EXCEPT ![p] = "closed"]
  /\ timer' = [timer EXCEPT ![p] = FALSE]
  /\ own' = [own EXCEPT ![p][Solo].id = 0]
  /\ calls' = calls \cup Leave(p, {own[p][Solo].id})
  /\ UNCHANGED <<registryVars, setup, key, listed, bound, faults, pastVars>>

\* The answer of a registration.  Heartbeats start with the plugin, if the
\* first one succeeds, or never.
V1Registered(c, i, n) ==
  /\ own' = [own EXCEPT ![c.proc][Solo].id = i, ![c.proc][Solo].name = n]
  /\ timer' = [timer EXCEPT ![c.proc] = @ \/ stage[c.proc] = "loading"]
  /\ calls' = (calls \ {c}) \cup Leave(c.proc, {c.prev} \ {i})
  /\ UNCHANGED listed

-----------------------------------------------------------------------------
(* OpenCode v2 *)

V2Load(p) ==
  /\ harness[p] = "v2" /\ stage[p] = "off"
  /\ stage' = [stage EXCEPT ![p] = "on"]
  /\ UNCHANGED <<registryVars, setup, key, own, listed, timer, calls, bound, moves, faults,
                 pastVars>>

\* ensureSession, on an event or a tool call of the session: one registration
\* at a time.  A tool call does not wait for the event loop, which may be at the
\* deregister of a deleted session.
V2Ensure(p, s) ==
  LET i == IF s \in listed[p] THEN own[p][s] ELSE ResolvedV2(p, s)
  IN /\ harness[p] = "v2" /\ stage[p] = "on"
     /\ ~(s \in listed[p] /\ own[p][s].id # 0)
     /\ ~\E c \in CallsOf(p) : c.op = "register" /\ c.tab = s
     /\ listed' = [listed EXCEPT ![p] = @ \cup {s}]
     /\ own' = [own EXCEPT ![p][s] = i]
     /\ calls' = calls \cup {Registering(p, s, i, s, 0)}
     /\ UNCHANGED <<registryVars, setup, stage, key, timer, bound, moves, faults, pastVars>>

Orphaned(p, S) ==
  {IF c.proc = p /\ c.tab \in S THEN [c EXCEPT !.orphan = TRUE] ELSE c : c \in calls}

\* session.deleted, and session.moved to another directory.  (That the event loop
\* takes the next one only after the deregister is left out: it may come sooner.)
V2Deleted(p, s) ==
  /\ harness[p] = "v2" /\ stage[p] = "on" /\ s \in listed[p] /\ Move
  /\ listed' = [listed EXCEPT ![p] = @ \ {s}]
  /\ own' = [own EXCEPT ![p][s] = Unknown]
  /\ calls' = Orphaned(p, {s}) \cup Leave(p, {own[p][s].id})
  /\ excused' = [excused EXCEPT ![p] = @ \/ \E c \in CallsOf(p) : c.tab = s]
  /\ UNCHANGED <<registryVars, setup, stage, key, timer, bound, faults, given>>

\* The function setup returns.
V2Close(p) ==
  /\ harness[p] = "v2" /\ stage[p] = "on" /\ Move
  /\ stage' = [stage EXCEPT ![p] = "closed"]
  /\ listed' = [listed EXCEPT ![p] = {}]
  /\ own' = [own EXCEPT ![p] = [t \in Tabs |-> Unknown]]
  /\ calls' = Orphaned(p, Sessions) \cup Leave(p, {own[p][s].id : s \in listed[p]})
  /\ excused' = [excused EXCEPT ![p] = @ \/ \E c \in CallsOf(p) : c.op = "claim"]
  /\ UNCHANGED <<registryVars, setup, key, timer, bound, faults, given>>

\* mutant: without `if (closed)`.
V2RegisteredAnyway(c, i, n) ==
  /\ IF c.orphan THEN UNCHANGED own
     ELSE own' = [own EXCEPT ![c.proc][c.tab].id = i, ![c.proc][c.tab].name = n]
  /\ calls' = calls \ {c}
  /\ UNCHANGED <<listed, timer>>

\* mutant: the assigned name is not adopted.
V2RegisteredAsAsked(c, i, n) ==
  /\ IF c.orphan THEN UNCHANGED own
     ELSE own' = [own EXCEPT ![c.proc][c.tab].id = i]
  /\ calls' = (calls \ {c}) \cup Leave(c.proc, IF stage[c.proc] = "closed" THEN {i} ELSE {})
  /\ UNCHANGED <<listed, timer>>

\* The answer of a registration: a closed plugin gives the row up.
V2Registered(c, i, n) ==
  /\ IF c.orphan THEN UNCHANGED own
     ELSE own' = [own EXCEPT ![c.proc][c.tab].id = i, ![c.proc][c.tab].name = n]
  /\ calls' = (calls \ {c}) \cup Leave(c.proc, IF stage[c.proc] = "closed" THEN {i} ELSE {})
  /\ UNCHANGED <<listed, timer>>

-----------------------------------------------------------------------------
(* Pi *)

\* session_start, up to the answer of keepAlive.
PiStart(p, s) ==
  /\ harness[p] = "pi" /\ stage[p] = "off"
  /\ stage' = [stage EXCEPT ![p] = "loading"]
  /\ key' = [key EXCEPT ![p] = s]
  /\ own' = [own EXCEPT ![p][Solo] = Resolved(p, s)]
  /\ calls' = calls \cup {Registering(p, Solo, Resolved(p, s), s, 0)}
  /\ UNCHANGED <<registryVars, setup, listed, timer, bound, moves, faults, pastVars>>

\* mutant: a failed heartbeat is ignored, as v1 and v2 do.
KeepAliveOnce(p) ==
  /\ harness[p] = "pi" /\ timer[p]
  /\ ~\E c \in CallsOf(p) : c.op = "register"
  /\ \E n \in RowOf(own[p][Solo].id) : agents' = [agents EXCEPT ![n].live = TRUE]
  /\ UNCHANGED <<nextId, setup, procVars, calls, bound, moves, faults, pastVars>>

\* keepAlive, every 30 s: the row is registered anew if the heartbeat fails.
KeepAlive(p) ==
  /\ harness[p] = "pi" /\ timer[p]
  /\ ~\E c \in CallsOf(p) : c.op = "register"
  /\ \/ /\ \E n \in RowOf(own[p][Solo].id) : agents' = [agents EXCEPT ![n].live = TRUE]
        /\ UNCHANGED <<calls, faults>>
     \/ /\ RowOf(own[p][Solo].id) # {} => Fault
        /\ RowOf(own[p][Solo].id) = {} => UNCHANGED faults
        /\ calls' = calls \cup {Registering(p, Solo, own[p][Solo], key[p], 0)}
        /\ UNCHANGED agents
  /\ UNCHANGED <<nextId, setup, procVars, bound, moves, pastVars>>

PiShutdown(p) ==
  /\ harness[p] = "pi" /\ stage[p] = "on" /\ Move
  /\ stage' = [stage EXCEPT ![p] = "closed"]
  /\ timer' = [timer EXCEPT ![p] = FALSE]
  /\ own' = [own EXCEPT ![p][Solo].id = 0]
  /\ calls' = calls \cup Leave(p, {own[p][Solo].id})
  /\ UNCHANGED <<registryVars, setup, key, listed, bound, faults, pastVars>>

\* The timer starts whatever the first answer is.
PiRegistered(c, i, n) ==
  /\ own' = [own EXCEPT ![c.proc][Solo].id = i, ![c.proc][Solo].name = n]
  /\ timer' = [timer EXCEPT ![c.proc] = @ \/ stage[c.proc] = "loading"]
  /\ calls' = calls \ {c}
  /\ UNCHANGED listed

-----------------------------------------------------------------------------
(* Claiming a name *)

\* xats_claim_name: the name, exactly.
Claim(p, t, n) ==
  LET s == IF t = Solo THEN key[p] ELSE t
  IN /\ stage[p] = "on" /\ Move
     /\ IF harness[p] = "v2" THEN t \in listed[p] /\ own[p][t].id # 0 ELSE t = Solo
     /\ calls' = calls \cup {Call(p, "claim", t, Ask([name |-> n, mode |-> "exact"], s), own[p][t].id)}
     /\ UNCHANGED <<registryVars, setup, procVars, bound, faults, pastVars>>

\* v1 and Pi give up the id they had when they asked, v2 the one it has now.
Previous(c) == IF harness[c.proc] = "v2" THEN own[c.proc][c.tab].id ELSE c.prev

\* The claim's answer; the binding is for the session of that moment.
Claimed(c, i, n) ==
  LET s == IF c.tab = Solo THEN key[c.proc] ELSE c.tab
  IN /\ own' = [own EXCEPT ![c.proc][c.tab] =
                  IF c.orphan THEN @ ELSE [id |-> i, name |-> n, mode |-> "exact"]]
     /\ bound' = [bound EXCEPT ![s] = IF s = None THEN None ELSE n]
     /\ calls' = (calls \ {c}) \cup Leave(c.proc, IF c.orphan THEN {} ELSE {Previous(c)} \ {i})
     /\ UNCHANGED <<listed, timer>>

-----------------------------------------------------------------------------
(* Answers *)

\* The daemon registers the request under n.
Granted(q, n) ==
  /\ \/ n \in Targets(q) /\ ~Conflict(n, q)
     \/ q.mode = "prefer" /\ n \in Allocated(q) /\ \E m \in Targets(q) : Conflict(m, q)
  /\ WriteRow(n, q)

Answered(c) ==
  /\ c.op # "deregister"
  /\ \E n \in Names :
       /\ Granted(c.q, n)
       /\ CASE c.op = "claim" -> Claimed(c, agents'[n].id, n)
            [] c.op = "register" /\ harness[c.proc] = "v1" -> V1Registered(c, agents'[n].id, n)
            [] c.op = "register" /\ harness[c.proc] = "v2" -> V2Registered(c, agents'[n].id, n)
            [] c.op = "register" /\ harness[c.proc] = "pi" -> PiRegistered(c, agents'[n].id, n)
       /\ c.op = "register" => UNCHANGED bound
       /\ given' = [given EXCEPT ![c.proc] = @ \cup {agents'[n].id}]
  /\ UNCHANGED <<faults, excused>>

\* No row for the plugin: the name is held by a live agent (409), the daemon
\* cannot be reached, or its answer is lost.
NotAnswered(c) ==
  /\ c.op # "deregister"
  /\ \/ \E n \in Targets(c.q) : Conflict(n, c.q) /\ c.q.mode = "exact" /\ UNCHANGED <<registryVars, faults>>
     \/ Fault /\ (UNCHANGED registryVars \/ \E n \in Names : Granted(c.q, n))
  /\ calls' = calls \ {c}
  /\ timer' = [timer EXCEPT ![c.proc] = @ \/ (stage[c.proc] = "loading" /\ harness[c.proc] = "pi")]
  /\ UNCHANGED <<own, listed, bound, pastVars>>

\* The row of that id goes, whoever has it now; failures are ignored.
Deregistered(c) ==
  /\ c.op = "deregister"
  /\ \/ /\ agents' = [n \in Names |-> IF n \in RowOf(c.prev) THEN Absent ELSE agents[n]]
        /\ UNCHANGED faults
     \/ Fault /\ UNCHANGED agents
  /\ calls' = calls \ {c}
  /\ UNCHANGED <<nextId, own, listed, timer, bound, pastVars>>

Answer(p) ==
  /\ \E c \in CallsOf(p) : Answered(c) \/ NotAnswered(c) \/ Deregistered(c)
  /\ stage' = [stage EXCEPT ![p] = IF @ = "loading" THEN "on" ELSE @]
  /\ UNCHANGED <<setup, key, moves>>

-----------------------------------------------------------------------------
(* Heartbeats, time and crashes *)

\* v1 and v2: whether the row is there or not.
Beat(p) ==
  /\ harness[p] # "pi"
  /\ \E n \in UNION {RowOf(i) : i \in Beating(p)} : ~agents[n].live /\ Heartbeat(n)
  /\ UNCHANGED <<setup, procVars, calls, bound, moves, faults, pastVars>>

\* Three minutes without a heartbeat; of a row that has a holder, or is being
\* given up all that time, only if a machine sleeps.
Attended(i) == (\E p \in Processes : i \in Beating(p)) \/ (\E c \in calls : c.prev = i)

Silent(n) ==
  /\ Lapse(n)
  /\ IF Attended(agents[n].id) THEN Fault ELSE UNCHANGED faults
  /\ UNCHANGED <<setup, procVars, calls, bound, moves, pastVars>>

Sweep ==
  /\ Reap
  /\ UNCHANGED <<setup, procVars, calls, bound, moves, faults, pastVars>>

\* A request the daemon had read already is an answer that was lost before.
Crash(p) ==
  /\ stage[p] \in {"loading", "on"} /\ Fault
  /\ stage' = [stage EXCEPT ![p] = "closed"]
  /\ own' = [own EXCEPT ![p] = [t \in Tabs |-> Unknown]]
  /\ listed' = [listed EXCEPT ![p] = {}] /\ timer' = [timer EXCEPT ![p] = FALSE]
  /\ calls' = calls \ CallsOf(p)
  /\ UNCHANGED <<registryVars, setup, key, bound, moves, pastVars>>

-----------------------------------------------------------------------------
PluginsInit ==
  /\ RegistryInit
  /\ setup \in Setups
  /\ stage = [p \in Processes |-> "off"] /\ key = [p \in Processes |-> None]
  /\ own = [p \in Processes |-> [t \in Tabs |-> Unknown]]
  /\ listed = [p \in Processes |-> {}] /\ timer = [p \in Processes |-> FALSE]
  /\ calls = {} /\ bound = [s \in Sessions \cup {None} |-> None]
  /\ moves = 0 /\ faults = 0
  /\ given = [p \in Processes |-> {}] /\ excused = [p \in Processes |-> FALSE]

Plugin(p) ==
  \/ \E s \in Opens[p] \cup {None} : V1Load(p, s)
  \/ \E s \in Opens[p] : V1Event(p, s) \/ V2Ensure(p, s) \/ V2Deleted(p, s) \/ PiStart(p, s)
  \/ V1Dispose(p) \/ V2Load(p) \/ V2Close(p) \/ PiShutdown(p)
  \/ \E t \in Tabs, n \in Wanted : Claim(p, t, n)

PluginsNext ==
  \/ \E p \in Processes : Plugin(p) \/ Answer(p) \/ KeepAlive(p) \/ Beat(p) \/ Crash(p)
  \/ \E n \in Names : Silent(n)
  \/ Sweep

\* Requests are answered or time out; the timers of the plugins and the daemon run.
Fairness ==
  /\ \A p \in Processes : WF_pluginsVars(Answer(p)) /\ WF_pluginsVars(KeepAlive(p))
  /\ WF_pluginsVars(Sweep)

PluginsSpec == PluginsInit /\ [][PluginsNext]_pluginsVars /\ Fairness

-----------------------------------------------------------------------------
(* Properties *)

\* "Adopt whatever it assigned so peers and this session agree on the return
\* address" (register): what v2 and Pi take to be their name is the name of
\* their row.
AgreesOnAddress ==
  \A p \in Processes, t \in Tabs :
    harness[p] # "v1" => \A n \in RowOf(own[p][t].id) : own[p][t].name = n

\* A v2 plugin that was closed, even with registrations under way, leaves no
\* agent behind, unless a session went, or a claim was under way then.
ClosedLeavesNoRow ==
  \A p \in Processes :
    /\ harness[p] = "v2" /\ stage[p] = "closed" /\ CallsOf(p) = {}
    /\ ~excused[p] /\ faults = 0
    => \A n \in Names : agents[n].id \in given[p] =>
         \E r \in Processes \ {p} : agents[n].id \in given[r]

\* "It also self-heals after daemon restarts and TTL reaping" (session_start of
\* Pi): a Pi session is on the bus again and again, unless another agent has
\* the name it must have.
PiStaysOnBus ==
  \A p \in Processes :
    harness[p] = "pi" /\ timer[p] ~>
      \/ ~timer[p] \/ RowOf(own[p][Solo].id) # {}
      \/ own[p][Solo].mode = "exact" /\ Exists(own[p][Solo].name)
=============================================================================
