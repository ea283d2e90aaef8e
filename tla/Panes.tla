------------------------------- MODULE Panes -------------------------------
(***************************************************************************)
(* Codex sessions and the tmux panes their agents are bound to             *)
(* (register-codex-self, codex-appserver-rpc, pre-register-codex-pane,     *)
(* auto-bind-codex-pane, tmux-pane-detect, bind-runtime-identity).         *)
(*                                                                         *)
(* A launcher registers its pane under a fresh id, then becomes the Codex  *)
(* UI whose command line carries that id.  When the session registers, the *)
(* daemon resumes its thread at the app server, writes the agent's row and *)
(* looks for its pane: first among the pre-registrations, then by a score  *)
(* over all panes.  Nothing tells the daemon which of the UIs it sees is   *)
(* the caller, and every look at tmux or ps is an await.                   *)
(*                                                                         *)
(* A session stands for its process, its id and its thread.  The panes are *)
(* those of one tmux window and outlive the model, as do their ttys.       *)
(***************************************************************************)
EXTENDS Naturals

CONSTANTS
  Agents,   \* Codex sessions
  Panes,    \* tmux panes
  NoPane,   \* an agent's row without a pane
  MaxCalls, \* bound: registrations and bindings asked for, in all
  MaxMoves  \* bound: steps of persons and faults

ASSUME NoPaneAssumption == NoPane \notin Panes
ASSUME BoundsAssumption == {MaxCalls, MaxMoves} \subseteq Nat

VARIABLES
  life,     \* session -> "new", "launching", "running" or "ended"
  home,     \* session -> pane it was launched in
  lines,    \* session -> processes of its UI that ps lists with its command line
  helpers,  \* panes in which a Codex app server runs
  active,   \* the active pane
  prereg,   \* pending pre-registrations: [pane, uuid]
  rows,     \* sessions whose agent has a row
  bound,    \* session -> pane of its row
  sockets,  \* sessions for which a socket to the app server is open
  call,     \* session -> the call it waits for
  used,     \* history: pre-registrations an agent was bound through
  calls, moves

world == <<life, home, lines, helpers, active>>
daemon == <<prereg, rows, bound>>
vars == <<world, daemon, sockets, call, used, calls, moves>>

Requests == {"initializing", "resuming"}
NoReg == [pane |-> NoPane, uuid |-> NoPane]
Idle == [pc |-> "idle",
         via |-> "none",     \* how the pane is looked for
         regs |-> {},        \* pre-registrations listed
         todo |-> {},        \* panes still to probe
         found |-> {},       \* panes found
         shown |-> [active |-> NoPane, codex |-> {}, twice |-> {}],
         chosen |-> NoReg,   \* candidate
         old |-> {},         \* history: `used` when the pre-registrations were listed
         clear |-> FALSE,    \* history: its own pane was listed, and shown with one process
         seen |-> {}]        \* history: panes in which a Codex UI ran during the call

Move == moves < MaxMoves /\ moves' = moves + 1

Running == {a \in Agents : life[a] = "running"}

\* What ps lists on a pane's tty, and whether it finds a process
Uis(p) == {a \in Running : home[a] = p}
PidFound(a) == a \in Running

Vacant(p) == p \notin helpers /\ \A a \in Agents : life[a] \in {"launching", "running"} => home[a] # p

\* mutant: the app server counts as a UI
UiOrHelper(p) == Uis(p) # {} \/ p \in helpers

\* A command line of Codex on the pane's tty that is not a helper's.
CodexUi(p) == Uis(p) # {}

CodexPanes == {p \in Panes : CodexUi(p)}

\* Panes whose UI is a wrapper and its child
TwicePanes == {p \in Panes : \E a \in Uis(p) : lines[a] = 2}

\* What tmux says of its panes: the active one, and those that show codex, which a
\* UI started by a wrapper (node) need not do.  `twice` is for what ps will say.
Shown(uis) == [active |-> active, codex |-> uis \cup helpers, twice |-> {}]

-----------------------------------------------------------------------------
(* Outside the daemon *)

\* INSERT ... ON CONFLICT(pane_id) DO UPDATE
Upserted(p, a) == {r \in prereg : r.pane # p} \cup {[pane |-> p, uuid |-> a]}

Register(a, p) == prereg' = Upserted(p, a)

\* The launcher asks the daemon to note its pane, which may fail.
PreRegister(a, p) ==
  /\ life[a] = "new" /\ Vacant(p)
  /\ life' = [life EXCEPT ![a] = "launching"] /\ home' = [home EXCEPT ![a] = p]
  /\ \/ Register(a, p) /\ moves' = moves
     \/ prereg' = prereg /\ Move
  /\ UNCHANGED <<lines, helpers, active, rows, bound, sockets, call, used, calls>>

\* ... and becomes the UI.
Exec(a) ==
  /\ life[a] = "launching" /\ life' = [life EXCEPT ![a] = "running"]
  /\ call' = [b \in Agents |-> IF call[b] = Idle THEN Idle
                               ELSE [call[b] EXCEPT !.seen = @ \cup {home[a]}]]
  /\ UNCHANGED <<home, lines, helpers, active, daemon, sockets, used, calls, moves>>

\* A Codex that was installed as a wrapper starts its native child, with the same
\* arguments on the same tty.
Spawn(a) ==
  /\ life[a] = "running" /\ lines[a] = 1 /\ lines' = [lines EXCEPT ![a] = 2]
  /\ UNCHANGED <<life, home, helpers, active, daemon, sockets, call, used, calls, moves>>

\* The UI ends; a call of its session goes on in the daemon.
Exit(a) ==
  /\ Move /\ life[a] = "running" /\ life' = [life EXCEPT ![a] = "ended"]
  /\ call' = [call EXCEPT ![a].clear = FALSE]
  /\ UNCHANGED <<home, lines, helpers, active, daemon, sockets, used, calls>>

StartHelper(p) ==
  /\ Move /\ Vacant(p) /\ helpers' = helpers \cup {p}
  /\ UNCHANGED <<life, home, lines, active, daemon, sockets, call, used, calls>>

SelectPane(p) ==
  /\ Move /\ active # p /\ active' = p
  /\ UNCHANGED <<life, home, lines, helpers, daemon, sockets, call, used, calls>>

\* A pre-registration lasts for its ttl.
Expire(r) ==
  /\ Move /\ prereg' = prereg \ {r}
  /\ UNCHANGED <<world, rows, bound, sockets, call, used, calls>>

\* The reaper, or unregister_self from another connection
RemoveRow(a) ==
  /\ Move /\ a \in rows /\ rows' = rows \ {a} /\ bound' = [bound EXCEPT ![a] = NoPane]
  /\ UNCHANGED <<world, prereg, sockets, call, used, calls>>

-----------------------------------------------------------------------------
(* Registration at the app server *)

Becomes(a, pc) == call' = [call EXCEPT ![a].pc = pc]
Ends(a) == call' = [call EXCEPT ![a] = Idle]

\* register_agent with a thread_id: a socket is opened.
Connect(a) ==
  /\ calls < MaxCalls /\ calls' = calls + 1
  /\ life[a] = "running" /\ call[a] = Idle
  /\ sockets' = sockets \cup {a}
  /\ call' = [call EXCEPT ![a] = [Idle EXCEPT !.pc = "initializing", !.seen = {home[b] : b \in Running}]]
  /\ UNCHANGED <<world, daemon, used, moves>>

\* The socket opened and initialize is answered; the next request follows at once.
Initialize(a) ==
  /\ a \in sockets /\ call[a].pc = "initializing" /\ Becomes(a, "resuming")
  /\ UNCHANGED <<world, daemon, sockets, used, calls, moves>>

\* The app server answers a request with an error.
RequestFails(a) ==
  /\ Move /\ a \in sockets
  /\ Ends(a) /\ sockets' = sockets \ {a}
  /\ UNCHANGED <<world, daemon, used, calls>>

\* What waits on a closed socket is rejected, and the registration ends.
RejectAll == call' = [a \in Agents |-> IF call[a].pc \in Requests THEN Idle ELSE call[a]]

\* The app server ends: every socket closes.
Crash ==
  /\ Move /\ sockets # {} /\ sockets' = {} /\ RejectAll
  /\ UNCHANGED <<world, daemon, used, calls>>

\* Pre-registrations whose id exactly one command line on the pane's tty carries
Matches(regs, p) == {r \in regs : r.pane = p /\ r.uuid \in Uis(p) /\ lines[r.uuid] = 1}

Detecting(c) == [Idle EXCEPT !.pc = "listing", !.via = "detect", !.seen = c.seen]

\* autoBindRuntimeIdentity of a session that gave no ui_pid
LookForPane(a) ==
  LET c == call[a] IN
  IF prereg = {} THEN Detecting(c)
  ELSE [c EXCEPT !.pc = "probing", !.via = "prereg", !.regs = prereg,
                 !.todo = {r.pane : r \in prereg}, !.old = used,
                 !.clear = life[a] = "running" /\ [pane |-> home[a], uuid |-> a] \in prereg]

\* thread/resume is answered: the row is written, keeping its pane, and the socket closed.
Resume(a) ==
  /\ a \in sockets /\ call[a].pc = "resuming" /\ sockets' = sockets \ {a}
  /\ rows' = rows \cup {a}
  /\ call' = [call EXCEPT ![a] = LookForPane(a)]
  /\ UNCHANGED <<world, prereg, bound, used, calls, moves>>

-----------------------------------------------------------------------------
(* Binding through a pre-registration *)

\* mutant: the first candidate is as good as any
Any(found) == found # {}

\* Only one candidate will do.
Unambiguous(found) == \E x \in found : found = {x}

\* After the last probe.  An agent that has lost its row is not bound.
Probed(a, c) ==
  IF c.todo # {} THEN {c}
  ELSE IF Unambiguous(c.found) /\ a \in rows
         THEN {[c EXCEPT !.pc = "reading", !.chosen = r, !.regs = {}] : r \in c.found}
         ELSE {Detecting(c)}

\* ps lists the processes of one pane.
Probe(a, p) ==
  LET c == call[a] IN
  /\ c.pc = "probing" /\ p \in c.todo
  /\ \E n \in Probed(a, [c EXCEPT !.todo = @ \ {p}, !.found = @ \cup Matches(c.regs, p),
                                    !.clear = @ /\ (p # home[a] \/ lines[a] = 1)]) :
       call' = [call EXCEPT ![a] = n]
  /\ UNCHANGED <<world, daemon, sockets, used, calls, moves>>

\* ps fails or takes more than three seconds: no processes.
ProbeFails(a, p) ==
  LET c == call[a] IN
  /\ Move /\ c.pc = "probing" /\ p \in c.todo
  /\ \E n \in Probed(a, [c EXCEPT !.todo = @ \ {p}, !.clear = @ /\ p # home[a]]) :
       call' = [call EXCEPT ![a] = n]
  /\ UNCHANGED <<world, daemon, sockets, used, calls>>

\* The look in this way has failed; without a ui_pid the next one is tried.
GivesUp(c) == IF c.via = "prereg" THEN Detecting(c) ELSE Idle

\* tmux is asked for its panes again, ps for the tty of the process.
ReadPid(a) ==
  LET c == call[a] IN
  /\ c.pc = "reading"
  /\ call' = [call EXCEPT ![a] =
       IF PidFound(c.chosen.uuid) THEN [c EXCEPT !.pc = "binding", !.found = {home[c.chosen.uuid]}]
                                    ELSE GivesUp(c)]
  /\ UNCHANGED <<world, daemon, sockets, used, calls, moves>>

\* bind_runtime_identity with the pid of the session's own UI
BindByPid(a) ==
  /\ calls < MaxCalls /\ calls' = calls + 1
  /\ life[a] = "running" /\ a \in rows /\ call[a] = Idle
  /\ call' = [call EXCEPT ![a] = [Idle EXCEPT !.pc = "reading", !.via = "pid", !.seen = {home[b] : b \in Running},
                                              !.chosen = [pane |-> home[a], uuid |-> a]]]
  /\ UNCHANGED <<world, daemon, sockets, used, moves>>

\* tmux is not available.
TmuxFails(a) ==
  LET c == call[a] IN
  /\ Move /\ c.pc \in {"probing", "reading", "listing", "confirming"}
  /\ call' = [call EXCEPT ![a] = GivesUp(c)]
  /\ UNCHANGED <<world, daemon, sockets, used, calls>>

\* setRuntimeBinding updates the row if there is one.
SetBinding(a, p) == bound' = IF a \in rows THEN [bound EXCEPT ![a] = p] ELSE bound

\* mutant: it stays until it expires
NotTaken(c) == prereg' = prereg /\ used' = used \cup {c.chosen.uuid}

\* takeByPaneId, whoever registered the pane by now
Taken(c) ==
  /\ prereg' = {r \in prereg : r.pane # c.chosen.pane}
  /\ used' = used \cup {c.chosen.uuid}

Bind(a) ==
  LET c == call[a] IN
  /\ c.pc = "binding" /\ \E p \in c.found : SetBinding(a, p)
  /\ IF c.via = "prereg" THEN Taken(c) ELSE UNCHANGED <<prereg, used>>
  /\ Ends(a)
  /\ UNCHANGED <<world, rows, sockets, calls, moves>>

-----------------------------------------------------------------------------
(* Binding by detection *)

\* tmux lists the panes, with the command each shows and the active one.
ListPanes(a) ==
  /\ call[a].pc = "listing"
  /\ \E uis \in SUBSET CodexPanes :
       call' = [call EXCEPT ![a].pc = "detecting", ![a].todo = Panes, ![a].shown = Shown(uis)]
  /\ UNCHANGED <<world, daemon, sockets, used, calls, moves>>

Score(c, p) ==
  (IF p \in c.shown.twice THEN 20 ELSE 10)
    + (IF p = c.shown.active THEN 3 ELSE 0) + (IF p \in c.shown.codex THEN 6 ELSE 0)

\* The panes no other beats
Best(c) == {p \in c.found : \A q \in c.found : Score(c, q) <= Score(c, p)}

\* After the last pane: one that beats all others is bound, else none.
Detected(a, c) ==
  IF c.todo # {} THEN {c}
  ELSE IF Unambiguous(Best(c)) /\ a \in rows
         THEN {[c EXCEPT !.pc = "confirming", !.found = Best(c), !.shown = Idle.shown]}
         ELSE {Idle}

\* ps for one pane
Detect(a, p) ==
  LET c == call[a] IN
  /\ c.pc = "detecting" /\ p \in c.todo
  /\ \E n \in Detected(a, [c EXCEPT !.todo = @ \ {p}, !.found = @ \cup (CodexPanes \cap {p}),
                                      !.shown.twice = @ \cup (TwicePanes \cap {p})]) :
       call' = [call EXCEPT ![a] = n]
  /\ UNCHANGED <<world, daemon, sockets, used, calls, moves>>

\* ps fails or takes more than three seconds: the pane has no processes.
DetectFails(a, p) ==
  LET c == call[a] IN
  /\ Move /\ c.pc = "detecting" /\ p \in c.todo
  /\ \E n \in Detected(a, [c EXCEPT !.todo = @ \ {p}]) : call' = [call EXCEPT ![a] = n]
  /\ UNCHANGED <<world, daemon, sockets, used, calls>>

\* bind_runtime_identity by tty and pane: ps once more.
Confirm(a) ==
  LET c == call[a] IN
  /\ c.pc = "confirming"
  /\ call' = [call EXCEPT ![a] = IF c.found \subseteq CodexPanes THEN [c EXCEPT !.pc = "binding"] ELSE Idle]
  /\ UNCHANGED <<world, daemon, sockets, used, calls, moves>>

-----------------------------------------------------------------------------
Init ==
  /\ life = [a \in Agents |-> "new"] /\ home = [a \in Agents |-> NoPane]
  /\ lines = [a \in Agents |-> 1] /\ helpers = {} /\ active \in Panes
  /\ prereg = {} /\ rows = {} /\ bound = home
  /\ sockets = {} /\ call = [a \in Agents |-> Idle]
  /\ used = {} /\ calls = 0 /\ moves = 0

Looks(a) ==
  \/ ReadPid(a) \/ Bind(a) \/ ListPanes(a) \/ Confirm(a)
  \/ \E p \in Panes : Probe(a, p) \/ Detect(a, p)

Next ==
  \/ Crash \/ \E r \in prereg : Expire(r)
  \/ \E p \in Panes : StartHelper(p) \/ SelectPane(p)
  \/ \E a \in Agents :
       \/ \E p \in Panes : PreRegister(a, p) \/ ProbeFails(a, p) \/ DetectFails(a, p)
       \/ Exec(a) \/ Spawn(a) \/ Exit(a) \/ RemoveRow(a)
       \/ Connect(a) \/ Initialize(a) \/ Resume(a) \/ RequestFails(a)
       \/ BindByPid(a) \/ TmuxFails(a) \/ Looks(a)

\* tmux and ps answer or are cut off after three seconds; the app server may be silent.
Spec == Init /\ [][Next]_vars /\ \A a \in Agents : WF_vars(Looks(a))

-----------------------------------------------------------------------------
(* Properties. *)

\* Types; a pane has one pre-registration, and only rows have panes.
TypeOK ==
  /\ \A a \in Agents :
       /\ life[a] \in {"new", "launching", "running", "ended"}
       /\ lines[a] \in {1, 2}
       /\ home[a] \in Panes \cup {NoPane} /\ bound[a] \in Panes \cup {NoPane}
       /\ bound[a] # NoPane => a \in rows
       /\ call[a].pc \in Requests \cup {"idle", "probing", "reading", "binding", "listing",
                                        "detecting", "confirming"}
       /\ a \in sockets <=> call[a].pc \in Requests
  /\ \A r, s \in prereg : r.pane = s.pane => r = s
  /\ active \in Panes /\ helpers \subseteq Panes /\ used \subseteq Agents
  /\ calls \in 0..MaxCalls /\ moves \in 0..MaxMoves

Binds(a) == bound'[a] # bound[a] /\ bound'[a] # NoPane

\* An agent is bound only to a pane in which a Codex UI ran while the call was
\* under way, whatever started, ended or failed between the looks at it: hints are
\* not typed into a shell or an app server that was one all along.
BoundPaneRanCodex == [][\A a \in Agents : Binds(a) => bound'[a] \in call[a].seen]_vars

\* A session is bound through a pre-registration to another's pane only if its own was
\* not listed any more, its own pane could not be probed, its UI had ended, or its pane
\* showed the wrapper beside the UI, which is no candidate either: "when exactly one
\* pre-reg maps to a live codex --remote process" (autoBindCodexPane).
OwnPaneFirst ==
  [][\A a \in Agents : Binds(a) /\ call[a].via = "prereg" /\ call[a].clear => bound'[a] = home[a]]_vars

\* A pre-registration binds one agent: two are bound through it only if the second
\* had listed it before the first was bound.
PreRegistrationUsedOnce ==
  [][\A a \in Agents : Binds(a) /\ call[a].via = "prereg" => call[a].chosen.uuid \notin call[a].old]_vars

=============================================================================
