---------------------------- MODULE Panes_proofs ----------------------------
(***************************************************************************)
(* Theorems about the panes of Codex agents (module Panes), for any        *)
(* sessions, panes, calls and moves.                                       *)
(*                                                                         *)
(* Each is about what a call remembers while the world moves on: where     *)
(* Codex UIs ran since it began, the pre-registrations it listed and which *)
(* of them were used by then, and that it has not ruled out its own one.   *)
(* It may do so only when its pane showed a wrapper beside the UI, its UI  *)
(* has ended or ps failed.                                                 *)
(***************************************************************************)
EXTENDS Panes, TLAPS

Places == Panes \cup {NoPane}
Stages == Requests \cup {"idle", "probing", "reading", "binding", "listing", "detecting", "confirming"}
Reg == [pane : Places, uuid : Agents \cup {NoPane}]
Seen == [active : Places, codex : SUBSET Panes, twice : SUBSET Panes]
Call ==
  [pc : Stages, via : {"none", "prereg", "detect", "pid"}, regs : SUBSET Reg, todo : SUBSET Panes,
   found : SUBSET (Reg \cup Places), shown : Seen, chosen : Reg, old : SUBSET Agents,
   clear : BOOLEAN, seen : SUBSET Places]

\* A pre-registration is of the pane its session was launched in.
Honest(r) == r.uuid \in Agents /\ life[r.uuid] # "new" /\ r.pane = home[r.uuid]

Own(a) == [pane |-> home[a], uuid |-> a]

\* The UIs that run were seen, and so were the panes that may be bound.
SeenEnough(c) ==
  /\ c.pc # "idle" => \A b \in Running : home[b] \in c.seen
  /\ c.pc \in {"listing", "detecting", "confirming", "binding"} => c.found \subseteq c.seen

\* What was listed was not used by then; a session that runs, whose own
\* pre-registration was listed and whose own pane was or will be probed, with one
\* command line on it, finds it.
ListedWell(a, c) ==
  /\ c.pc = "probing" =>
       /\ c.via = "prereg" /\ c.found \subseteq c.regs
       /\ \A r \in c.regs : Honest(r) /\ r.uuid \notin c.old
       /\ c.clear => Own(a) \in c.regs /\ (home[a] \in c.todo \/ Own(a) \in c.found)
  /\ c.pc \in {"reading", "binding"} /\ c.via = "prereg" =>
       /\ Honest(c.chosen) /\ c.chosen.uuid \notin c.old
       /\ c.clear => c.chosen.uuid = a
  /\ c.pc = "binding" /\ c.via = "prereg" /\ c.clear => c.found = {home[a]}

Good(a, c) ==
  /\ c.pc = "idle" => c = Idle
  /\ c.pc \in Requests => c.found = {}
  /\ SeenEnough(c) /\ ListedWell(a, c)
  /\ c.pc \in {"listing", "detecting", "confirming"} => c.via = "detect"
  /\ c.clear => life[a] = "running"

Counting == calls \in 0..MaxCalls /\ moves \in 0..MaxMoves

World ==
  /\ life \in [Agents -> {"new", "launching", "running", "ended"}]
  /\ home \in [Agents -> Places] /\ lines \in [Agents -> {1, 2}]
  /\ \A a \in Agents : life[a] # "new" => home[a] \in Panes
  /\ active \in Panes /\ helpers \subseteq Panes

Rows ==
  /\ bound \in [Agents -> Places]
  /\ \A a \in Agents : bound[a] # NoPane => a \in rows

\* A pre-registration that is still there was not used.
Regs ==
  /\ prereg \subseteq Reg /\ \A r \in prereg : Honest(r) /\ r.uuid \notin used
  /\ \A r, s \in prereg : r.pane = s.pane => r = s
  /\ used \subseteq Agents /\ \A a \in used : life[a] # "new"

Sockets == sockets \subseteq Agents /\ \A a \in Agents : a \in sockets <=> call[a].pc \in Requests
CallsGood == call \in [Agents -> Call] /\ \A a \in Agents : Good(a, call[a])

PaneInv == Counting /\ World /\ Rows /\ Regs /\ Sockets /\ CallsGood

-----------------------------------------------------------------------------
(* Calls. *)

LEMMA CallNow ==
  ASSUME PaneInv, NEW a \in Agents
  PROVE  call[a] \in Call /\ Good(a, call[a]) /\ call \in [Agents -> Call]
BY DEF PaneInv, CallsGood

\* A move or a call is within its bound.
LEMMA Counts ==
  ASSUME PaneInv
  PROVE  /\ Move /\ UNCHANGED calls => Counting'
         /\ UNCHANGED <<calls, moves>> => Counting'
         /\ calls < MaxCalls /\ calls' = calls + 1 /\ UNCHANGED moves => Counting'
<1>1. MaxCalls \in Nat /\ MaxMoves \in Nat /\ calls \in 0..MaxCalls /\ moves \in 0..MaxMoves
  BY BoundsAssumption DEF PaneInv, Counting
<1>2. Move => moves' \in 0..MaxMoves
  BY <1>1 DEF Move
<1>3. calls < MaxCalls /\ calls' = calls + 1 => calls' \in 0..MaxCalls
  BY <1>1
<1>4. QED BY <1>1, <1>2, <1>3 DEF Counting

LEMMA IdleGood == Idle \in Call /\ Idle.pc = "idle" /\ \A a \in Agents : Good(a, Idle)
<1>1. NoReg \in Reg
  BY DEF NoReg, Reg, Places
<1>2. [active |-> NoPane, codex |-> {}, twice |-> {}] \in Seen
  BY DEF Seen, Places
<1>3. Idle \in Call
  BY <1>1, <1>2 DEF Idle, Call, Stages
<1>4. Idle.pc = "idle" /\ Idle.clear = FALSE
  BY DEF Idle
<1>5. QED BY <1>3, <1>4 DEF Good, SeenEnough, ListedWell, Requests

\* A look by detection starts from nothing but the UIs seen.
LEMMA DetectingGood ==
  ASSUME NEW a \in Agents, NEW c \in Call, Good(a, c), c.pc # "idle"
  PROVE  Detecting(c) \in Call /\ Good(a, Detecting(c)) /\ Detecting(c).pc = "listing"
<1> DEFINE d == Detecting(c)
<1>1. c.seen \in SUBSET Places
  BY DEF Call
<1>2. d = [Idle EXCEPT !.pc = "listing", !.via = "detect", !.seen = c.seen]
  BY DEF Detecting
<1>3. Idle \in Call
  BY IdleGood
<1>4. d \in Call
  BY <1>1, <1>2, <1>3 DEF Call, Stages
<1>5. d.pc = "listing" /\ d.via = "detect" /\ d.found = {} /\ d.clear = FALSE /\ d.seen = c.seen
  BY <1>2 DEF Idle
<1>6. \A b \in Running : home[b] \in c.seen
  BY DEF Good, SeenEnough
<1>7. Good(a, d)
  <2> HIDE DEF d
  <2>1. QED BY <1>5, <1>6 DEF Good, SeenEnough, ListedWell
<1>8. QED BY <1>4, <1>5, <1>7

LEMMA GivesUpGood ==
  ASSUME NEW a \in Agents, NEW c \in Call, Good(a, c), c.pc # "idle"
  PROVE  GivesUp(c) \in Call /\ Good(a, GivesUp(c)) /\ GivesUp(c).pc \notin Requests
<1>1. CASE c.via = "prereg"
  BY <1>1, DetectingGood DEF GivesUp, Requests
<1>2. CASE c.via # "prereg"
  BY <1>2, IdleGood DEF GivesUp, Requests
<1>3. QED BY <1>1, <1>2

\* One call changes, and what it may touch.
LEMMA CallStep ==
  ASSUME PaneInv, NEW a \in Agents, NEW n \in Call, Good(a, n),
         call' = [call EXCEPT ![a] = n],
         UNCHANGED world, Counting', Rows', Regs',
         sockets' \subseteq Agents, sockets' \ {a} = sockets \ {a},
         a \in sockets' <=> n.pc \in Requests
  PROVE  PaneInv'
<1>1. call \in [Agents -> Call]
  BY DEF PaneInv, CallsGood
<1>2. call' \in [Agents -> Call] /\ call'[a] = n /\ \A b \in Agents \ {a} : call'[b] = call[b]
  BY <1>1
<1>3. World'
  BY DEF PaneInv, World, world
<1>4. Sockets'
  BY <1>2 DEF PaneInv, Sockets
<1>5. \A b \in Agents : Good(b, call'[b])
  BY <1>2 DEF PaneInv, CallsGood
<1>6. CallsGood'
  BY <1>2, <1>5 DEF CallsGood, Good, SeenEnough, ListedWell, Honest, Own, Running, world
<1>7. QED BY <1>3, <1>4, <1>6 DEF PaneInv

\* The same when sockets and tables are left alone
LEMMA LookStep ==
  ASSUME PaneInv, NEW a \in Agents, NEW n \in Call, Good(a, n), call' = [call EXCEPT ![a] = n],
         UNCHANGED <<world, daemon, sockets, used>>, Counting',
         call[a].pc \notin Requests, n.pc \notin Requests
  PROVE  PaneInv'
<1>1. Rows'
  BY DEF PaneInv, Rows, daemon
<1>2. Regs'
  BY DEF PaneInv, Regs, Honest, daemon, world
<1>3. sockets' \subseteq Agents /\ sockets' = sockets /\ a \notin sockets'
  BY DEF PaneInv, Sockets
<1>4. QED BY <1>1, <1>2, <1>3, CallStep

-----------------------------------------------------------------------------
(* Outside the daemon. *)

\* A session that is launched was in no list: it is new.
LEMMA PreRegisterStep ==
  ASSUME PaneInv, NEW a \in Agents, NEW p \in Panes, PreRegister(a, p)
  PROVE  PaneInv'
<1>1. /\ life[a] = "new" /\ life' = [life EXCEPT ![a] = "launching"] /\ home' = [home EXCEPT ![a] = p]
      /\ UNCHANGED <<lines, helpers, active, rows, bound, sockets, call, used, calls>>
  BY DEF PreRegister
<1>2. /\ life'[a] = "launching" /\ home'[a] = p
      /\ \A b \in Agents \ {a} : life'[b] = life[b] /\ home'[b] = home[b]
  BY <1>1 DEF PaneInv, World
<1>3. Counting'
  BY <1>1, Counts DEF PreRegister
<1>4. World'
  BY <1>1, <1>2 DEF PaneInv, World, Places
<1>5. \A r : Honest(r) => Honest(r)' /\ r.uuid # a
  BY <1>1, <1>2 DEF Honest
<1>6. Regs'
  <2> DEFINE new == [pane |-> p, uuid |-> a]
  <2>1. new \in Reg /\ new.pane = p /\ new.uuid = a
    BY DEF Reg, Places
  <2>2. prereg' \in {prereg, {r \in prereg : r.pane # p} \cup {new}}
    BY DEF PreRegister, Register, Upserted
  <2>3. Honest(new)' /\ a \notin used
    BY <1>1, <1>2, <2>1 DEF Honest, PaneInv, Regs
  <2> HIDE DEF new
  <2>4. used \subseteq Agents /\ \A b \in used : life'[b] # "new"
    BY <1>1, <1>2 DEF PaneInv, Regs
  <2>5. \A r \in prereg' : Honest(r)' /\ r.uuid \notin used /\ r \in Reg
    BY <1>5, <2>1, <2>2, <2>3 DEF PaneInv, Regs
  <2>6. \A r, s \in prereg' : r.pane = s.pane => r = s
    BY <2>1, <2>2 DEF PaneInv, Regs
  <2>7. QED BY <1>1, <2>4, <2>5, <2>6 DEF Regs
<1>7. CallsGood'
  <2>1. ASSUME NEW b \in Agents PROVE Good(b, call[b])'
    <3>1. Good(b, call[b]) /\ call'[b] = call[b]
      BY <1>1, CallNow
    <3>2. \A d \in Agents : life'[d] = "running" => life[d] = "running" /\ home'[d] = home[d]
      BY <1>1, <1>2
    <3>3. life[b] = "running" => life'[b] = "running" /\ home'[b] = home[b]
      BY <1>1, <1>2
    <3>4. SeenEnough(call[b])'
      BY <3>1, <3>2 DEF Good, SeenEnough, Running
    <3>5. ListedWell(b, call[b])'
      BY <1>5, <3>1, <3>3 DEF Good, ListedWell, Own
    <3>6. QED BY <3>1, <3>3, <3>4, <3>5 DEF Good
  <2>2. QED BY <1>1, <2>1 DEF PaneInv, CallsGood
<1>8. QED BY <1>1, <1>3, <1>4, <1>6, <1>7 DEF PaneInv, Rows, Sockets

\* A UI that starts is seen by every call under way.
LEMMA ExecStep ==
  ASSUME PaneInv, NEW a \in Agents, Exec(a)
  PROVE  PaneInv'
<1>1. /\ life[a] = "launching" /\ life' = [life EXCEPT ![a] = "running"]
      /\ call' = [b \in Agents |-> IF call[b] = Idle THEN Idle
                                   ELSE [call[b] EXCEPT !.seen = @ \cup {home[a]}]]
      /\ UNCHANGED <<home, lines, helpers, active, daemon, sockets, used, calls, moves>>
  BY DEF Exec
<1>2. life'[a] = "running" /\ \A b \in Agents \ {a} : life'[b] = life[b]
  BY <1>1 DEF PaneInv, World
<1>3. Counting' /\ World' /\ Rows'
  BY <1>1, <1>2, Counts DEF PaneInv, World, Rows, daemon
<1>4. Regs'
  BY <1>1, <1>2 DEF PaneInv, Regs, Honest, daemon
<1>5. ASSUME NEW b \in Agents
      PROVE  call'[b] \in Call /\ call'[b].pc = call[b].pc /\ Good(b, call[b])'
  <2>1. call[b] \in Call /\ Good(b, call[b])
    BY CallNow
  <2>2. CASE call[b] = Idle
    <3>1. call'[b] = Idle
      BY <1>1, <2>2
    <3>2. Good(b, Idle)'
      BY IdleGood DEF Good, SeenEnough, ListedWell, Idle, Requests
    <3>3. QED BY <2>1, <2>2, <3>1, <3>2
  <2>3. CASE call[b] # Idle
    <3> DEFINE n == [call[b] EXCEPT !.seen = @ \cup {home[a]}]
    <3>1. call'[b] = n /\ home[a] \in Places
      BY <1>1, <2>3 DEF PaneInv, World
    <3>2. n \in Call
      BY <2>1, <3>1 DEF Call
    <3>3. /\ call'[b].pc = call[b].pc /\ call'[b].via = call[b].via /\ call'[b].found = call[b].found
          /\ call'[b].regs = call[b].regs /\ call'[b].todo = call[b].todo
          /\ call'[b].chosen = call[b].chosen /\ call'[b].old = call[b].old
          /\ call'[b].clear = call[b].clear /\ call'[b].seen = call[b].seen \cup {home[a]}
      BY <2>1, <3>1 DEF Call
    <3>9. call'[b] \in Call
      BY <3>1, <3>2
    <3> HIDE DEF n
    <3>4. call'[b].pc # "idle"
      BY <2>1, <2>3, <3>3 DEF Good
    <3>5. SeenEnough(call[b])'
      BY <1>1, <1>2, <2>1, <3>3, <3>4 DEF Good, SeenEnough, Running
    <3>6. ListedWell(b, call[b])'
      BY <1>1, <1>2, <2>1, <3>3 DEF Good, ListedWell, Honest, Own
    <3>7. Good(b, call[b])'
      <4>1. Good(b, call[b])
        BY <2>1
      <4>2. b # a => life'[b] = life[b]
        BY <1>2
      <4>3. call'[b].clear => life'[b] = "running"
        BY <1>2, <3>3, <4>1, <4>2 DEF Good
      <4>4. QED BY <3>3, <3>4, <3>5, <3>6, <4>1, <4>3 DEF Good
    <3>8. QED BY <3>3, <3>7, <3>9
  <2>4. QED BY <2>2, <2>3
<1>6. CallsGood' /\ Sockets'
  BY <1>1, <1>5 DEF PaneInv, CallsGood, Sockets
<1>7. QED BY <1>3, <1>4, <1>6 DEF PaneInv

\* A call whose session has ended is not said to find its own pane.
LEMMA ExitStep ==
  ASSUME PaneInv, NEW a \in Agents, Exit(a)
  PROVE  PaneInv'
<1>1. /\ Move /\ life[a] = "running" /\ life' = [life EXCEPT ![a] = "ended"]
      /\ call' = [call EXCEPT ![a].clear = FALSE]
      /\ UNCHANGED <<home, lines, helpers, active, daemon, sockets, used, calls>>
  BY DEF Exit
<1>2. life'[a] = "ended" /\ \A b \in Agents \ {a} : life'[b] = life[b]
  BY <1>1 DEF PaneInv, World
<1>3. Counting' /\ World' /\ Rows'
  BY <1>1, <1>2, Counts DEF PaneInv, World, Rows, daemon
<1>4. Regs'
  BY <1>1, <1>2 DEF PaneInv, Regs, Honest, daemon
<1>5. call' \in [Agents -> Call] /\ call'[a] = [call[a] EXCEPT !.clear = FALSE]
      /\ \A b \in Agents \ {a} : call'[b] = call[b]
  <2>1. [call[a] EXCEPT !.clear = FALSE] \in Call
    <3>1. ASSUME NEW c \in Call, NEW x \in BOOLEAN PROVE [c EXCEPT !.clear = x] \in Call
      BY DEF Call
    <3>2. QED BY <3>1, CallNow
  <2> DEFINE n == [call[a] EXCEPT !.clear = FALSE]
  <2>2. call' = [call EXCEPT ![a] = n] /\ n \in Call /\ call \in [Agents -> Call]
    BY <1>1, <2>1, CallNow
  <2> HIDE DEF n
  <2>3. call' \in [Agents -> Call] /\ call'[a] = n /\ \A b \in Agents \ {a} : call'[b] = call[b]
    BY <2>2
  <2>4. QED BY <2>3 DEF n
<1>6. /\ call'[a].pc = call[a].pc /\ call'[a].via = call[a].via /\ call'[a].found = call[a].found
      /\ call'[a].regs = call[a].regs /\ call'[a].todo = call[a].todo
      /\ call'[a].chosen = call[a].chosen /\ call'[a].old = call[a].old
      /\ call'[a].clear = FALSE /\ call'[a].seen = call[a].seen
  BY <1>5, CallNow DEF Call
<1>7. call'[a].pc = "idle" => call'[a] = Idle
  <2>1. SUFFICES ASSUME call[a].pc = "idle" PROVE call'[a] = Idle
    BY <1>6
  <2>2. call[a] = Idle
    BY <2>1, CallNow DEF Good
  <2>3. [Idle EXCEPT !.clear = FALSE] = Idle
    <3>1. Idle.clear = FALSE /\ Idle \in Call
      BY IdleGood DEF Idle
    <3>2. QED BY <3>1 DEF Call
  <2>4. QED BY <1>5, <2>2, <2>3
<1>8. \A b \in Running' : b \in Running
  BY <1>1, <1>2 DEF Running
<1>9. ASSUME NEW b \in Agents PROVE Good(b, call[b])' /\ call'[b] \in Call /\ call'[b].pc = call[b].pc
  <2>1. CASE b = a
    <3>1. Good(a, call[a])
      BY CallNow
    <3>2. SeenEnough(call[a])'
      BY <1>1, <1>6, <1>8, <3>1 DEF Good, SeenEnough
    <3>3. ListedWell(a, call[a])'
      BY <1>1, <1>2, <1>6, <3>1 DEF Good, ListedWell, Honest, Own
    <3>4. Good(a, call[a])'
      BY <1>6, <1>7, <3>1, <3>2, <3>3 DEF Good
    <3>5. call'[a] \in Call
      BY <1>5
    <3>6. QED BY <1>6, <2>1, <3>4, <3>5
  <2>2. CASE b # a
    <3>1. call'[b] = call[b] /\ Good(b, call[b]) /\ life'[b] = life[b] /\ call[b] \in Call
      BY <1>2, <1>5, <2>2, CallNow
    <3>2. SeenEnough(call[b])'
      BY <1>1, <1>8, <3>1 DEF Good, SeenEnough
    <3>3. ListedWell(b, call[b])'
      BY <1>1, <1>2, <3>1 DEF Good, ListedWell, Honest, Own
    <3>4. QED BY <3>1, <3>2, <3>3 DEF Good
  <2>3. QED BY <2>1, <2>2
<1>10. CallsGood' /\ Sockets'
  BY <1>1, <1>5, <1>9 DEF PaneInv, CallsGood, Sockets
<1>11. QED BY <1>3, <1>4, <1>10 DEF PaneInv

\* Steps that leave sessions and calls alone
LEMMA AroundStep ==
  ASSUME PaneInv,
         \/ \E p \in Panes : StartHelper(p) \/ SelectPane(p)
         \/ \E r \in prereg : Expire(r)
         \/ \E a \in Agents : RemoveRow(a)
  PROVE  PaneInv'
<1>1. Move /\ UNCHANGED <<life, home, lines, sockets, call, used, calls>> /\ prereg' \subseteq prereg
  BY DEF StartHelper, SelectPane, Expire, RemoveRow, world, daemon
<1>2. Counting' /\ Sockets'
  BY <1>1, Counts DEF PaneInv, Sockets
<1>3. World'
  BY <1>1 DEF StartHelper, SelectPane, Expire, RemoveRow, PaneInv, World, world
<1>4. Rows'
  BY DEF StartHelper, SelectPane, Expire, RemoveRow, PaneInv, Rows, Places, daemon
<1>5. Regs'
  BY <1>1 DEF PaneInv, Regs, Honest
<1>6. CallsGood'
  BY <1>1 DEF PaneInv, CallsGood, Good, SeenEnough, ListedWell, Honest, Own, Running
<1>7. QED BY <1>2, <1>3, <1>4, <1>5, <1>6 DEF PaneInv

LEMMA SpawnStep ==
  ASSUME PaneInv, NEW a \in Agents, Spawn(a)
  PROVE  PaneInv'
<1>1. /\ lines' = [lines EXCEPT ![a] = 2]
      /\ UNCHANGED <<life, home, helpers, active, daemon, sockets, call, used, calls, moves>>
  BY DEF Spawn
<1>2. Counting' /\ World'
  BY <1>1, Counts DEF PaneInv, World
<1>3. Rows' /\ Regs' /\ Sockets'
  BY <1>1 DEF PaneInv, Rows, Regs, Sockets, Honest, daemon
<1>4. CallsGood'
  BY <1>1 DEF PaneInv, CallsGood, Good, SeenEnough, ListedWell, Honest, Own, Running
<1>5. QED BY <1>2, <1>3, <1>4 DEF PaneInv

-----------------------------------------------------------------------------
(* Registration at the app server. *)

LEMMA ConnectStep ==
  ASSUME PaneInv, NEW a \in Agents, Connect(a) \/ BindByPid(a)
  PROVE  PaneInv'
<1> DEFINE seen == {home[b] : b \in Running}
           ask == [Idle EXCEPT !.pc = "initializing", !.seen = seen]
           bind == [Idle EXCEPT !.pc = "reading", !.via = "pid", !.seen = seen, !.chosen = Own(a)]
<1>1. Counting' /\ UNCHANGED <<world, daemon, used>> /\ call[a] = Idle
  BY Counts DEF Connect, BindByPid
<1>2. seen \subseteq Places /\ \A b \in Running : home[b] \in seen
  BY DEF PaneInv, World, Running
<1>3. Own(a) \in Reg
  BY DEF Own, Reg, PaneInv, World
<1> HIDE DEF seen
<1>4. /\ ask \in Call /\ ask.pc = "initializing" /\ ask.via = "none" /\ ask.found = {}
      /\ ask.clear = FALSE /\ ask.seen = seen
  <2>1. ask \in Call
    BY <1>2, IdleGood DEF Call, Stages, Requests
  <2>2. QED BY <2>1 DEF Idle
<1>5. /\ bind \in Call /\ bind.pc = "reading" /\ bind.via = "pid" /\ bind.found = {}
      /\ bind.clear = FALSE /\ bind.seen = seen
  <2>1. bind \in Call
    BY <1>2, <1>3, IdleGood DEF Call, Stages, Requests
  <2>2. Idle \in Call /\ Idle.found = {} /\ Idle.clear = FALSE
    BY IdleGood DEF Idle
  <2>3. QED BY <2>1, <2>2 DEF Call
<1>6. Connect(a) => call' = [call EXCEPT ![a] = ask] /\ sockets' = sockets \cup {a}
  BY DEF Connect, Own, seen
<1>7. BindByPid(a) => call' = [call EXCEPT ![a] = bind] /\ sockets' = sockets
  BY DEF BindByPid, Own, seen
<1> HIDE DEF ask, bind
<1>8. Good(a, ask) /\ Good(a, bind)
  BY <1>2, <1>4, <1>5 DEF Good, SeenEnough, ListedWell
<1>9. CASE Connect(a)
  <2>1. Rows' /\ Regs'
    BY <1>1 DEF PaneInv, Rows, Regs, Honest, daemon, world
  <2>2. sockets' \subseteq Agents /\ sockets' \ {a} = sockets \ {a} /\ a \in sockets'
    BY <1>6, <1>9 DEF PaneInv, Sockets
  <2>3. ask.pc \in Requests
    BY <1>4 DEF Requests
  <2>4. UNCHANGED world
    BY <1>1
  <2>5. QED BY <1>1, <1>4, <1>6, <1>8, <1>9, <2>1, <2>2, <2>3, <2>4, CallStep
<1>10. CASE BindByPid(a)
  <2>1. call[a].pc \notin Requests /\ bind.pc \notin Requests
    BY <1>1, <1>5, IdleGood DEF Requests
  <2>2. QED BY <1>1, <1>5, <1>7, <1>8, <1>10, <2>1, LookStep
<1>11. QED BY <1>9, <1>10

\* The next request on the socket
LEMMA InitializeStep ==
  ASSUME PaneInv, NEW a \in Agents, Initialize(a)
  PROVE  PaneInv'
<1> DEFINE n == [call[a] EXCEPT !.pc = "resuming"]
<1>1. /\ a \in sockets /\ call[a].pc = "initializing" /\ call' = [call EXCEPT ![a] = n]
      /\ UNCHANGED <<world, daemon, sockets, used, calls, moves>>
  BY DEF Initialize, Becomes
<1>2. n \in Call
  BY CallNow DEF Call, Stages, Requests
<1>3. /\ n.pc = "resuming" /\ n.clear = call[a].clear /\ n.seen = call[a].seen
      /\ n.found = call[a].found
  BY CallNow DEF Call
<1> HIDE DEF n
<1>4. Good(a, n)
  BY <1>1, <1>3, CallNow DEF Good, SeenEnough, ListedWell, Requests
<1>5. Counting' /\ Rows' /\ Regs' /\ UNCHANGED world
  BY <1>1, Counts DEF PaneInv, Rows, Regs, Honest, daemon, world
<1>6. sockets' = sockets /\ sockets \subseteq Agents /\ n.pc \in Requests
  BY <1>1, <1>3 DEF PaneInv, Sockets, Requests
<1>7. QED BY <1>1, <1>2, <1>4, <1>5, <1>6, CallStep

\* Registrations that end, one or all
LEMMA CutStep ==
  ASSUME PaneInv, Crash \/ \E a \in Agents : RequestFails(a)
  PROVE  PaneInv'
<1>1. Move /\ UNCHANGED <<world, daemon, used, calls>>
  BY DEF Crash, RequestFails
<1>2. Counting' /\ World' /\ Rows' /\ Regs'
  BY <1>1, Counts DEF PaneInv, World, Rows, Regs, Honest, daemon, world
<1>3. call' \in [Agents -> Call] /\ \A b \in Agents : call'[b] \in {call[b], Idle}
  BY IdleGood, CallNow DEF Crash, RejectAll, RequestFails, Ends, PaneInv, CallsGood
<1>4. Sockets'
  <2>1. CASE Crash
    BY <2>1, CallNow, IdleGood DEF Crash, RejectAll, PaneInv, Sockets, Requests
  <2>2. ASSUME NEW a \in Agents, RequestFails(a) PROVE Sockets'
    <3>1. call \in [Agents -> Call] /\ call' = [call EXCEPT ![a] = Idle] /\ sockets' = sockets \ {a}
      BY <2>2, CallNow DEF RequestFails, Ends
    <3>2. Idle.pc \notin Requests
      BY IdleGood DEF Requests
    <3>3. QED BY <3>1, <3>2 DEF PaneInv, Sockets
  <2>3. QED BY <2>1, <2>2
<1>5. \A b \in Agents : Good(b, call'[b])
  BY <1>3, CallNow, IdleGood
<1>6. CallsGood'
  BY <1>1, <1>3, <1>5 DEF CallsGood, Good, SeenEnough, ListedWell, Honest, Own, Running, world
<1>7. QED BY <1>2, <1>4, <1>6 DEF PaneInv

\* The pre-registrations listed were not used so far.
LEMMA LookForPaneGood ==
  ASSUME PaneInv, NEW a \in Agents, call[a].pc = "resuming"
  PROVE  LookForPane(a) \in Call /\ Good(a, LookForPane(a)) /\ LookForPane(a).pc \notin Requests
<1> DEFINE c == call[a]
           d == [c EXCEPT !.pc = "probing", !.via = "prereg", !.regs = prereg,
                          !.todo = {r.pane : r \in prereg}, !.old = used,
                          !.clear = life[a] = "running" /\ Own(a) \in prereg]
<1>0. c \in Call /\ Good(a, c)
  BY CallNow
<1>1. CASE prereg = {}
  BY <1>0, <1>1, DetectingGood DEF LookForPane, Requests
<1>2. CASE prereg # {}
  <2>1. LookForPane(a) = d
    BY <1>2 DEF LookForPane, Own
  <2>2. {r.pane : r \in prereg} \subseteq Panes /\ prereg \subseteq Reg /\ used \subseteq Agents
    BY DEF PaneInv, Regs, Honest, World
  <2>3. (life[a] = "running" /\ Own(a) \in prereg) \in BOOLEAN
    OBVIOUS
  <2>4. d \in Call
    <3>1. ASSUME NEW T \in SUBSET Panes, NEW x \in BOOLEAN
          PROVE  [c EXCEPT !.pc = "probing", !.via = "prereg", !.regs = prereg, !.todo = T, !.old = used, !.clear = x]
                   \in Call
      BY <1>0, <2>2 DEF Call, Stages
    <3>2. QED BY <2>2, <2>3, <3>1
  <2>5. /\ d.pc = "probing" /\ d.via = "prereg" /\ d.regs = prereg /\ d.todo = {r.pane : r \in prereg}
        /\ d.old = used /\ d.found = c.found /\ d.seen = c.seen
    BY <1>0 DEF Call
  <2>6. d.clear => life[a] = "running" /\ Own(a) \in prereg
    BY <1>0 DEF Call
  <2> HIDE DEF d
  <2>7. c.found = {} /\ \A b \in Running : home[b] \in c.seen
    BY <1>0 DEF Good, SeenEnough, Requests
  <2>8. SeenEnough(d)
    BY <2>5, <2>7 DEF SeenEnough
  <2>9. ListedWell(a, d)
    <3>1. \A r \in d.regs : Honest(r) /\ r.uuid \notin d.old
      BY <2>5 DEF PaneInv, Regs
    <3>2. d.clear => Own(a) \in d.regs /\ home[a] \in d.todo
      <4>1. Own(a).pane = home[a]
        BY DEF Own
      <4>2. QED BY <2>5, <2>6, <4>1
    <3>3. d.pc = "probing" /\ d.via = "prereg" /\ d.found \subseteq d.regs
      BY <2>5, <2>7
    <3>4. QED BY <3>1, <3>2, <3>3 DEF ListedWell
  <2>10. Good(a, d)
    BY <2>5, <2>6, <2>8, <2>9 DEF Good, Requests
  <2>11. QED BY <2>1, <2>4, <2>5, <2>10 DEF Requests
<1>3. QED BY <1>1, <1>2

LEMMA ResumeStep ==
  ASSUME PaneInv, NEW a \in Agents, Resume(a)
  PROVE  PaneInv'
<1> DEFINE n == LookForPane(a)
<1>1. /\ call[a].pc = "resuming" /\ sockets' = sockets \ {a} /\ rows' = rows \cup {a}
      /\ call' = [call EXCEPT ![a] = n] /\ UNCHANGED <<world, prereg, bound, used, calls, moves>>
  BY DEF Resume
<1>2. n \in Call /\ Good(a, n) /\ n.pc \notin Requests
  BY <1>1, LookForPaneGood
<1> HIDE DEF n
<1>3. Counting' /\ Rows' /\ UNCHANGED world
  BY <1>1, Counts DEF PaneInv, Rows
<1>4. Regs'
  BY <1>1 DEF PaneInv, Regs, Honest, world
<1>5. sockets' \subseteq Agents /\ sockets' \ {a} = sockets \ {a} /\ a \notin sockets'
  BY <1>1 DEF PaneInv, Sockets
<1>6. QED BY <1>1, <1>2, <1>3, <1>4, <1>5, CallStep

-----------------------------------------------------------------------------
(* Binding. *)

\* A call whose last probe is made goes on with the only candidate, or by detection.
LEMMA ProbedGood ==
  ASSUME NEW a \in Agents, NEW c \in Call, Good(a, c), c.pc = "probing", NEW n \in Probed(a, c)
  PROVE  n \in Call /\ Good(a, n) /\ n.pc \notin Requests
<1>1. CASE n = c
  BY <1>1 DEF Requests
<1>2. CASE n = Detecting(c)
  BY <1>2, DetectingGood DEF Requests
<1>3. CASE c.todo = {} /\ Unambiguous(c.found)
           /\ \E r \in c.found : n = [c EXCEPT !.pc = "reading", !.chosen = r, !.regs = {}]
  <2>1. PICK r \in c.found : n = [c EXCEPT !.pc = "reading", !.chosen = r, !.regs = {}]
    BY <1>3
  <2>2. c.found = {r}
    BY <1>3 DEF Unambiguous
  <2>3. /\ c.via = "prereg" /\ r \in c.regs /\ Honest(r) /\ r.uuid \notin c.old
        /\ c.clear => Own(a) = r
    BY <1>3, <2>2 DEF Good, ListedWell
  <2>4. r \in Reg
    BY <2>3 DEF Call
  <2>5. n \in Call
    BY <2>1, <2>4 DEF Call, Stages
  <2>6. /\ n.pc = "reading" /\ n.via = c.via /\ n.chosen = r /\ n.old = c.old
        /\ n.clear = c.clear /\ n.seen = c.seen
    BY <2>1 DEF Call
  <2>7. Own(a).uuid = a
    BY DEF Own
  <2>8. SeenEnough(n)
    BY <2>6 DEF Good, SeenEnough
  <2>9. ListedWell(a, n)
    BY <2>3, <2>6, <2>7 DEF ListedWell
  <2>10. QED BY <2>5, <2>6, <2>8, <2>9 DEF Good, Requests
<1>4. QED BY <1>1, <1>2, <1>3 DEF Probed

\* A probe finds the session's own pre-registration if its UI runs and shows one
\* process; one that shows two or fails is remembered.
LEMMA ProbeStep ==
  ASSUME PaneInv, NEW a \in Agents, NEW p \in Panes, Probe(a, p) \/ ProbeFails(a, p)
  PROVE  PaneInv'
<1> DEFINE c == call[a]
           hit == [c EXCEPT !.todo = @ \ {p}, !.found = @ \cup Matches(c.regs, p),
                            !.clear = @ /\ (p # home[a] \/ lines[a] = 1)]
           miss == [c EXCEPT !.todo = @ \ {p}, !.clear = @ /\ p # home[a]]
<1>1. c \in Call /\ Good(a, c) /\ c.pc = "probing"
  BY CallNow DEF Probe, ProbeFails
<1>2. Counting' /\ UNCHANGED <<world, daemon, sockets, used>>
  BY Counts DEF Probe, ProbeFails
<1>3. /\ c.via = "prereg" /\ c.found \subseteq c.regs
      /\ \A r \in c.regs : Honest(r) /\ r.uuid \notin c.old
      /\ c.clear => Own(a) \in c.regs /\ (home[a] \in c.todo \/ Own(a) \in c.found)
      /\ c.clear => life[a] = "running"
      /\ \A b \in Running : home[b] \in c.seen
  BY <1>1 DEF Good, ListedWell, SeenEnough
<1>4. ASSUME NEW n \in Call, n.pc = "probing", n.via = "prereg", n.regs = c.regs, n.todo = c.todo \ {p},
             n.old = c.old, n.seen = c.seen, n.found \subseteq c.regs, c.found \subseteq n.found,
             n.clear => c.clear /\ (p = home[a] => Own(a) \in n.found)
      PROVE  Good(a, n)
  BY <1>3, <1>4 DEF Good, ListedWell, SeenEnough, Requests
<1>5. hit \in Call /\ Good(a, hit) /\ hit.pc = "probing"
  <2>1. Matches(c.regs, p) \subseteq c.regs
    BY DEF Matches
  <2>2. hit \in Call
    <3>1. c.found \cup Matches(c.regs, p) \in SUBSET (Reg \cup Places)
      BY <1>1, <2>1 DEF Call
    <3>2. (c.clear /\ (p # home[a] \/ lines[a] = 1)) \in BOOLEAN
      OBVIOUS
    <3>3. ASSUME NEW F \in SUBSET (Reg \cup Places), NEW x \in BOOLEAN
          PROVE  [c EXCEPT !.todo = @ \ {p}, !.found = F, !.clear = x] \in Call
      BY <1>1 DEF Call
    <3>4. QED BY <3>1, <3>2, <3>3
  <2>3. /\ hit.pc = "probing" /\ hit.via = c.via /\ hit.regs = c.regs /\ hit.todo = c.todo \ {p}
        /\ hit.old = c.old /\ hit.seen = c.seen /\ hit.found = c.found \cup Matches(c.regs, p)
    BY <1>1 DEF Call
  <2>6. hit.clear => c.clear /\ (p # home[a] \/ lines[a] = 1)
    BY <1>1 DEF Call
  <2>4. c.clear /\ p = home[a] /\ lines[a] = 1 => Own(a) \in Matches(c.regs, p)
    <3>1. SUFFICES ASSUME c.clear, p = home[a], lines[a] = 1 PROVE Own(a) \in Matches(c.regs, p)
      OBVIOUS
    <3>2. Own(a).pane = p /\ Own(a).uuid = a /\ a \in Uis(p)
      BY <1>3, <3>1 DEF Own, Uis, Running
    <3>3. Own(a) \in c.regs
      BY <1>3, <3>1
    <3>4. QED BY <3>1, <3>2, <3>3 DEF Matches
  <2> HIDE DEF hit
  <2>5. QED BY <1>3, <1>4, <2>1, <2>2, <2>3, <2>4, <2>6
<1>6. miss \in Call /\ Good(a, miss) /\ miss.pc = "probing"
  <2>1. miss \in Call
    <3>1. ASSUME NEW x \in BOOLEAN PROVE [c EXCEPT !.todo = @ \ {p}, !.clear = x] \in Call
      BY <1>1 DEF Call
    <3>2. (c.clear /\ p # home[a]) \in BOOLEAN
      OBVIOUS
    <3>3. QED BY <3>1, <3>2
  <2>2. /\ miss.pc = "probing" /\ miss.via = c.via /\ miss.regs = c.regs /\ miss.todo = c.todo \ {p}
        /\ miss.old = c.old /\ miss.seen = c.seen /\ miss.found = c.found
    BY <1>1 DEF Call
  <2>3. miss.clear => c.clear /\ p # home[a]
    BY <1>1 DEF Call
  <2> HIDE DEF miss
  <2>4. QED BY <1>3, <1>4, <2>1, <2>2, <2>3
<1>7. PICK m \in {hit, miss} : \E n \in Probed(a, m) : call' = [call EXCEPT ![a] = n]
  BY DEF Probe, ProbeFails
<1>8. PICK n \in Probed(a, m) : call' = [call EXCEPT ![a] = n]
  BY <1>7
<1>9. m \in Call /\ Good(a, m) /\ m.pc = "probing"
  BY <1>5, <1>6
<1> HIDE DEF hit, miss
<1>10. n \in Call /\ Good(a, n) /\ n.pc \notin Requests
  BY <1>9, ProbedGood
<1>11. c.pc \notin Requests
  BY <1>1 DEF Requests
<1>12. QED BY <1>2, <1>8, <1>10, <1>11, LookStep

\* The pane of a process that runs is one in which a Codex UI was seen.
LEMMA ReadPidStep ==
  ASSUME PaneInv, NEW a \in Agents, ReadPid(a)
  PROVE  PaneInv'
<1> DEFINE c == call[a]
           r == c.chosen
           n == [c EXCEPT !.pc = "binding", !.found = {home[r.uuid]}]
<1>1. c \in Call /\ Good(a, c) /\ c.pc = "reading" /\ c.pc \notin Requests
  BY CallNow DEF ReadPid, Requests
<1>2. Counting' /\ UNCHANGED <<world, daemon, sockets, used>>
  BY Counts DEF ReadPid
<1>3. CASE PidFound(r.uuid)
  <2>1. call' = [call EXCEPT ![a] = n]
    BY <1>3 DEF ReadPid
  <2>2. r.uuid \in Agents /\ r.uuid \in Running
    BY <1>3 DEF PidFound, Running
  <2>3. {home[r.uuid]} \in SUBSET (Reg \cup Places) /\ home[r.uuid] \in c.seen
    BY <1>1, <2>2 DEF PaneInv, World, Good, SeenEnough
  <2>4. n \in Call
    BY <1>1, <2>3 DEF Call, Stages
  <2>5. /\ n.pc = "binding" /\ n.via = c.via /\ n.found = {home[r.uuid]} /\ n.chosen = r /\ n.old = c.old
        /\ n.clear = c.clear /\ n.seen = c.seen
    BY <1>1 DEF Call
  <2> HIDE DEF n
  <2>6. SeenEnough(n)
    BY <1>1, <2>3, <2>5 DEF Good, SeenEnough
  <2>7. ListedWell(a, n)
    BY <1>1, <2>5 DEF Good, ListedWell
  <2>8. Good(a, n) /\ n.pc \notin Requests
    BY <1>1, <2>5, <2>6, <2>7 DEF Good, Requests
  <2>9. QED BY <1>1, <1>2, <2>1, <2>4, <2>8, LookStep
<1>4. CASE ~PidFound(r.uuid)
  <2>1. call' = [call EXCEPT ![a] = GivesUp(c)]
    BY <1>4 DEF ReadPid
  <2>2. GivesUp(c) \in Call /\ Good(a, GivesUp(c)) /\ GivesUp(c).pc \notin Requests
    BY <1>1, GivesUpGood
  <2>3. QED BY <1>1, <1>2, <2>1, <2>2, LookStep
<1>5. QED BY <1>3, <1>4

LEMMA TmuxFailsStep ==
  ASSUME PaneInv, NEW a \in Agents, TmuxFails(a)
  PROVE  PaneInv'
<1> DEFINE c == call[a]
<1>1. c \in Call /\ Good(a, c) /\ c.pc # "idle" /\ c.pc \notin Requests
  BY CallNow DEF TmuxFails, Requests
<1>2. Counting' /\ UNCHANGED <<world, daemon, sockets, used>> /\ call' = [call EXCEPT ![a] = GivesUp(c)]
  BY Counts DEF TmuxFails
<1>3. GivesUp(c) \in Call /\ Good(a, GivesUp(c)) /\ GivesUp(c).pc \notin Requests
  BY <1>1, GivesUpGood
<1>4. QED BY <1>1, <1>2, <1>3, LookStep

\* The row is bound, and the pre-registrations of the pane are used up.
LEMMA BindStep ==
  ASSUME PaneInv, NEW a \in Agents, Bind(a)
  PROVE  PaneInv'
<1> DEFINE c == call[a]
<1>1. c \in Call /\ Good(a, c) /\ c.pc = "binding" /\ call' = [call EXCEPT ![a] = Idle]
      /\ UNCHANGED <<world, rows, sockets, calls, moves>>
  BY CallNow DEF Bind, Ends
<1>2. Rows'
  <2>1. PICK p \in c.found : SetBinding(a, p)
    BY DEF Bind
  <2>2. p \in Places
    BY <1>1, <2>1 DEF Good, SeenEnough, Call
  <2>3. QED BY <1>1, <2>1, <2>2 DEF SetBinding, PaneInv, Rows
<1>3. Regs'
  <2>1. CASE c.via = "prereg"
    <3>1. /\ prereg' = {r \in prereg : r.pane # c.chosen.pane} /\ used' = used \cup {c.chosen.uuid}
          /\ Honest(c.chosen)
      BY <1>1, <2>1 DEF Bind, Taken, Good, ListedWell
    <3>2. \A r \in prereg' : Honest(r) /\ r.uuid \notin used'
      BY <3>1 DEF PaneInv, Regs, Honest
    <3>3. QED BY <1>1, <3>1, <3>2 DEF PaneInv, Regs, Honest, world
  <2>2. CASE c.via # "prereg"
    BY <1>1, <2>2 DEF Bind, PaneInv, Regs, Honest, world
  <2>3. QED BY <2>1, <2>2
<1>4. Counting' /\ UNCHANGED world
  BY <1>1, Counts
<1>5. sockets' \subseteq Agents /\ sockets' = sockets /\ a \notin sockets /\ Idle.pc \notin Requests
  BY <1>1, IdleGood DEF PaneInv, Sockets, Requests
<1>6. QED BY <1>1, <1>2, <1>3, <1>4, <1>5, IdleGood, CallStep

\* What detection finds are panes in which a Codex UI runs now, so was seen.
LEMMA DetectionStep ==
  ASSUME PaneInv, NEW a \in Agents,
         ListPanes(a) \/ Confirm(a) \/ \E p \in Panes : Detect(a, p) \/ DetectFails(a, p)
  PROVE  PaneInv'
<1> DEFINE c == call[a]
<1>1. /\ c \in Call /\ Good(a, c) /\ c.pc \in {"listing", "detecting", "confirming"} /\ c.pc \notin Requests
      /\ c.via = "detect" /\ c.found \subseteq c.seen /\ \A b \in Running : home[b] \in c.seen
      /\ c.clear => life[a] = "running"
  BY CallNow DEF ListPanes, Confirm, Detect, DetectFails, Good, SeenEnough, Requests
<1>2. Counting' /\ UNCHANGED <<world, daemon, sockets, used>>
  BY Counts DEF ListPanes, Confirm, Detect, DetectFails
<1>3. ASSUME NEW n \in Call, n.pc \in {"detecting", "confirming", "binding"}, n.via = "detect",
             n.found \subseteq n.seen, n.seen = c.seen, n.clear = c.clear
      PROVE  Good(a, n) /\ n.pc \notin Requests
  BY <1>1, <1>3 DEF Good, SeenEnough, ListedWell, Requests
<1>4. SUFFICES \E n \in Call : Good(a, n) /\ n.pc \notin Requests /\ call' = [call EXCEPT ![a] = n]
  BY <1>1, <1>2, LookStep
<1>5. CASE ListPanes(a)
  <2>0. PICK uis \in SUBSET CodexPanes :
          call' = [call EXCEPT ![a].pc = "detecting", ![a].todo = Panes, ![a].shown = Shown(uis)]
    BY <1>5 DEF ListPanes
  <2> DEFINE n == [c EXCEPT !.pc = "detecting", !.todo = Panes, !.shown = Shown(uis)]
  <2>1. Shown(uis) \in Seen
    BY DEF Shown, Seen, CodexPanes, PaneInv, World, Places
  <2>2. n \in Call
    BY <1>1, <2>1 DEF Call, Stages
  <2>3. n.pc = "detecting" /\ n.via = c.via /\ n.found = c.found /\ n.seen = c.seen /\ n.clear = c.clear
    BY <1>1 DEF Call
  <2>4. call' = [call EXCEPT ![a] = n]
    BY <2>0
  <2> HIDE DEF n
  <2>5. QED BY <1>1, <1>3, <2>2, <2>3, <2>4
<1>6. CASE Confirm(a)
  <2> DEFINE n == [c EXCEPT !.pc = "binding"]
  <2>1. n \in Call
    BY <1>1 DEF Call, Stages
  <2>2. n.pc = "binding" /\ n.via = c.via /\ n.found = c.found /\ n.seen = c.seen /\ n.clear = c.clear
    BY <1>1 DEF Call
  <2>3. call' = [call EXCEPT ![a] = n] \/ call' = [call EXCEPT ![a] = Idle]
    BY <1>6 DEF Confirm
  <2> HIDE DEF n
  <2>4. Good(a, n) /\ n.pc \notin Requests
    BY <1>1, <1>3, <2>1, <2>2
  <2>5. Idle.pc \notin Requests
    BY IdleGood DEF Requests
  <2>6. QED BY <2>1, <2>3, <2>4, <2>5, IdleGood
<1>7. ASSUME NEW p \in Panes, Detect(a, p) \/ DetectFails(a, p)
      PROVE  \E n \in Call : Good(a, n) /\ n.pc \notin Requests /\ call' = [call EXCEPT ![a] = n]
  <2> DEFINE hit == [c EXCEPT !.todo = @ \ {p}, !.found = @ \cup (CodexPanes \cap {p}),
                              !.shown.twice = @ \cup (TwicePanes \cap {p})]
             miss == [c EXCEPT !.todo = @ \ {p}]
  <2>1. CodexPanes \subseteq c.seen /\ CodexPanes \subseteq Places
    BY <1>1 DEF CodexPanes, CodexUi, Uis, Places
  <2>2. hit \in Call /\ miss \in Call
    <3>1. c.found \cup (CodexPanes \cap {p}) \in SUBSET (Reg \cup Places)
      BY <1>1, <2>1 DEF Call
    <3>2. [c.shown EXCEPT !.twice = @ \cup (TwicePanes \cap {p})] \in Seen
      BY <1>1 DEF Call, Seen
    <3>3. ASSUME NEW F \in SUBSET (Reg \cup Places), NEW x \in Seen
          PROVE  [c EXCEPT !.todo = @ \ {p}, !.found = F, !.shown = x] \in Call
      BY <1>1 DEF Call
    <3>4. hit = [c EXCEPT !.todo = @ \ {p}, !.found = @ \cup (CodexPanes \cap {p}),
                          !.shown = [c.shown EXCEPT !.twice = @ \cup (TwicePanes \cap {p})]]
      BY <1>1 DEF Call, Seen
    <3>5. hit \in Call
      BY <3>1, <3>2, <3>3, <3>4
    <3>6. miss \in Call
      BY <1>1 DEF Call
    <3>7. QED BY <3>5, <3>6
  <2>3. ASSUME NEW d \in {hit, miss}
        PROVE  /\ d \in Call /\ d.pc = "detecting" /\ d.via = c.via /\ d.seen = c.seen
               /\ d.clear = c.clear /\ d.found \subseteq c.seen
    <3>1. c.pc = "detecting"
      BY <1>7 DEF Detect, DetectFails
    <3>2. /\ hit.pc = c.pc /\ hit.via = c.via /\ hit.seen = c.seen /\ hit.clear = c.clear
          /\ hit.found = c.found \cup (CodexPanes \cap {p})
      BY <1>1 DEF Call
    <3>3. /\ miss.pc = c.pc /\ miss.via = c.via /\ miss.seen = c.seen /\ miss.clear = c.clear
          /\ miss.found = c.found
      BY <1>1 DEF Call
    <3> HIDE DEF hit, miss
    <3>4. QED BY <1>1, <2>1, <2>2, <3>1, <3>2, <3>3
  <2>4. PICK d \in {hit, miss} : \E m \in Detected(a, d) : call' = [call EXCEPT ![a] = m]
    BY <1>7 DEF Detect, DetectFails
  <2> HIDE DEF hit, miss
  <2> DEFINE n == [d EXCEPT !.pc = "confirming", !.found = Best(d), !.shown = Idle.shown]
  <2>5. call' = [call EXCEPT ![a] = d] \/ call' = [call EXCEPT ![a] = n] \/ call' = [call EXCEPT ![a] = Idle]
    BY <2>4 DEF Detected
  <2>6. Best(d) \subseteq d.found /\ Idle.shown \in Seen
    BY IdleGood DEF Best, Call
  <2>7. n \in Call
    <3>1. Best(d) \in SUBSET (Reg \cup Places)
      BY <2>3, <2>6 DEF Call
    <3>2. QED BY <2>3, <2>6, <3>1 DEF Call, Stages
  <2>8. n.pc = "confirming" /\ n.via = d.via /\ n.found = Best(d) /\ n.seen = d.seen /\ n.clear = d.clear
    BY <2>3 DEF Call
  <2> HIDE DEF n
  <2>9. Good(a, d) /\ d.pc \notin Requests
    BY <1>1, <1>3, <2>3
  <2>10. Good(a, n) /\ n.pc \notin Requests
    BY <1>1, <1>3, <2>3, <2>6, <2>7, <2>8
  <2>11. Idle.pc \notin Requests
    BY IdleGood DEF Requests
  <2>12. QED BY <2>3, <2>5, <2>7, <2>9, <2>10, <2>11, IdleGood
<1>8. QED BY <1>5, <1>6, <1>7

-----------------------------------------------------------------------------
(* The invariant and the properties. *)

LEMMA PaneInit == Init => PaneInv
<1> SUFFICES ASSUME Init PROVE PaneInv
  OBVIOUS
<1>1. /\ life = [a \in Agents |-> "new"] /\ home = [a \in Agents |-> NoPane]
      /\ lines = [a \in Agents |-> 1] /\ helpers = {} /\ active \in Panes /\ prereg = {} /\ rows = {} /\ bound = home
      /\ sockets = {} /\ call = [a \in Agents |-> Idle] /\ used = {} /\ calls = 0 /\ moves = 0
  BY DEF Init
<1>2. Counting
  BY <1>1, BoundsAssumption DEF Counting
<1>3. World /\ Rows
  BY <1>1 DEF World, Rows, Places
<1>4. Regs
  BY <1>1 DEF Regs
<1>5. Sockets /\ CallsGood
  BY <1>1, IdleGood DEF Sockets, CallsGood, Requests
<1>6. QED BY <1>2, <1>3, <1>4, <1>5 DEF PaneInv

LEMMA PaneStep == PaneInv /\ [Next]_vars => PaneInv'
<1> SUFFICES ASSUME PaneInv, [Next]_vars PROVE PaneInv'
  OBVIOUS
<1>1. CASE Crash
  BY <1>1, CutStep
<1>2. CASE \E r \in prereg : Expire(r)
  BY <1>2, AroundStep
<1>3. CASE \E p \in Panes : StartHelper(p) \/ SelectPane(p)
  BY <1>3, AroundStep
<1>4. ASSUME NEW a \in Agents, NEW p \in Panes,
             PreRegister(a, p) \/ ProbeFails(a, p) \/ DetectFails(a, p)
      PROVE  PaneInv'
  BY <1>4, PreRegisterStep, ProbeStep, DetectionStep
<1>5. ASSUME NEW a \in Agents, Exec(a) \/ Spawn(a) \/ Exit(a) \/ RemoveRow(a)
      PROVE  PaneInv'
  BY <1>5, ExecStep, SpawnStep, ExitStep, AroundStep
<1>6. ASSUME NEW a \in Agents, Connect(a) \/ Initialize(a) \/ Resume(a) \/ RequestFails(a) \/ BindByPid(a)
      PROVE  PaneInv'
  BY <1>6, ConnectStep, InitializeStep, ResumeStep, CutStep
<1>7. ASSUME NEW a \in Agents, TmuxFails(a) \/ Looks(a)
      PROVE  PaneInv'
  BY <1>7, TmuxFailsStep, ReadPidStep, BindStep, ProbeStep, DetectionStep DEF Looks
<1>8. CASE UNCHANGED vars
  BY <1>8 DEF vars, world, daemon, PaneInv, Counting, World, Rows, Regs, Sockets, CallsGood, Good, SeenEnough,
              ListedWell, Honest, Own, Running
<1>9. QED BY <1>1, <1>2, <1>3, <1>4, <1>5, <1>6, <1>7, <1>8 DEF Next

\* The invariant of panes: calls remember the UIs that ran and the pre-registrations
\* that were unused.  One whose UI runs, whose own pre-registration was listed and
\* whose own pane was probed, if at all, with one command line, has not ruled it out.
THEOREM PaneInvariant == Spec => []PaneInv
<1>1. Init => PaneInv
  BY PaneInit
<1>2. PaneInv /\ [Next]_vars => PaneInv'
  BY PaneStep
<1>3. QED BY <1>1, <1>2, PTL DEF Spec

\* Types; a pane has one pre-registration, and only rows have panes.
THEOREM PaneTypeCorrect == Spec => []TypeOK
<1>1. PaneInv => TypeOK
  BY DEF PaneInv, Counting, World, Rows, Regs, Sockets, CallsGood, Call, Stages, Places, TypeOK
<1>2. QED BY <1>1, PaneInvariant, PTL

\* A row is bound in the last step of its own session's call.
LEMMA OnlyBindBinds ==
  ASSUME PaneInv, [Next]_vars, NEW a \in Agents, Binds(a)
  PROVE  Bind(a) /\ call[a].pc = "binding" /\ bound'[a] \in call[a].found
<1>1. bound' # bound
  BY DEF Binds
<1>2. ~ \E b \in Agents : RemoveRow(b)
  BY DEF Binds, RemoveRow, PaneInv, Rows
<1>3. PICK b \in Agents : Bind(b)
  <2>1. ~(Crash \/ (\E r \in prereg : Expire(r)) \/ (\E p \in Panes : StartHelper(p) \/ SelectPane(p)))
    BY <1>1 DEF Crash, Expire, StartHelper, SelectPane, daemon
  <2>2. ~ \E b \in Agents : \/ \E p \in Panes : PreRegister(b, p) \/ ProbeFails(b, p) \/ DetectFails(b, p)
                           \/ Exec(b) \/ Spawn(b) \/ Exit(b) \/ Connect(b) \/ Initialize(b) \/ Resume(b)
    BY <1>1 DEF PreRegister, ProbeFails, DetectFails, Exec, Spawn, Exit, Connect, Initialize, Resume, daemon
  <2>3. ~ \E b \in Agents : RequestFails(b) \/ BindByPid(b) \/ TmuxFails(b)
    BY <1>1 DEF RequestFails, BindByPid, TmuxFails, daemon
  <2>4. ~ \E b \in Agents : \/ ReadPid(b) \/ ListPanes(b) \/ Confirm(b)
                           \/ \E p \in Panes : Probe(b, p) \/ Detect(b, p)
    BY <1>1 DEF ReadPid, ListPanes, Confirm, Probe, Detect, daemon
  <2>5. Next
    BY <1>1 DEF vars, daemon
  <2>6. QED BY <1>2, <2>1, <2>2, <2>3, <2>4, <2>5 DEF Next, Looks
<1>4. PICK p \in call[b].found : SetBinding(b, p)
  BY <1>3 DEF Bind
<1>5. b = a /\ bound'[a] = p
  BY <1>4 DEF SetBinding, Binds, PaneInv, Rows
<1>6. QED BY <1>3, <1>4, <1>5 DEF Bind

\* An agent is bound only to a pane in which a Codex UI ran during the call
\* (bindRuntimeIdentity looks at ps after every choice).
THEOREM PaneBoundRanCodex == Spec => BoundPaneRanCodex
<1>1. PaneInv /\ [Next]_vars => [\A a \in Agents : Binds(a) => bound'[a] \in call[a].seen]_vars
  <2>1. SUFFICES ASSUME PaneInv, [Next]_vars, NEW a \in Agents, Binds(a)
                 PROVE  bound'[a] \in call[a].seen
    OBVIOUS
  <2>2. call[a].pc = "binding" /\ bound'[a] \in call[a].found
    BY <2>1, OnlyBindBinds
  <2>3. QED BY <2>1, <2>2, CallNow DEF Good, SeenEnough
<1>2. QED BY <1>1, PaneInvariant, PTL DEF Spec, BoundPaneRanCodex

\* Through a pre-registration a session gets its own pane, if its own was listed and
\* its pane probed while its UI ran as one process (autoBindCodexPane takes the only
\* candidate; a pane that shows a wrapper and its child gives none).
THEOREM PaneOwnFirst == Spec => OwnPaneFirst
<1>1. PaneInv /\ [Next]_vars
        => [\A a \in Agents :
              Binds(a) /\ call[a].via = "prereg" /\ call[a].clear => bound'[a] = home[a]]_vars
  <2>1. SUFFICES ASSUME PaneInv, [Next]_vars, NEW a \in Agents, Binds(a),
                        call[a].via = "prereg", call[a].clear
                 PROVE  bound'[a] = home[a]
    OBVIOUS
  <2>2. call[a].pc = "binding" /\ bound'[a] \in call[a].found
    BY <2>1, OnlyBindBinds
  <2>3. QED BY <2>1, <2>2, CallNow DEF Good, ListedWell
<1>2. QED BY <1>1, PaneInvariant, PTL DEF Spec, OwnPaneFirst

\* A pre-registration that was used before it was listed binds nobody
\* (takeByPaneId removes it with the bind).
THEOREM PanePreRegistrationUsedOnce == Spec => PreRegistrationUsedOnce
<1>1. PaneInv /\ [Next]_vars
        => [\A a \in Agents :
              Binds(a) /\ call[a].via = "prereg" => call[a].chosen.uuid \notin call[a].old]_vars
  <2>1. SUFFICES ASSUME PaneInv, [Next]_vars, NEW a \in Agents, Binds(a), call[a].via = "prereg"
                 PROVE  call[a].chosen.uuid \notin call[a].old
    OBVIOUS
  <2>2. call[a].pc = "binding"
    BY <2>1, OnlyBindBinds
  <2>3. QED BY <2>1, <2>2, CallNow DEF Good, ListedWell
<1>2. QED BY <1>1, PaneInvariant, PTL DEF Spec, PreRegistrationUsedOnce
=============================================================================
