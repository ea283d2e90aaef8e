------------------------------- MODULE Bridge -------------------------------
(***************************************************************************)
(* The Filament bridge (assets/bridge/bridge.mjs): a process beside each   *)
(* daemon that knows the agents of other devices as shadow rows of its own *)
(* daemon, and carries what is written to a shadow to the bridge of the    *)
(* device where the agent lives.                                           *)
(*                                                                         *)
(* A bridge gossips the roster of its device, pushes messages for shadows  *)
(* to the peer bridge, and pulls what the peer has for its own device; the *)
(* three run one after the other in one loop, while the requests of other  *)
(* bridges are served between any two awaits of it.  What a bridge knows   *)
(* is in memory.  Rows and messages are in the daemon's database; the      *)
(* daemon reaps a shadow row, to which nothing gives a heartbeat.          *)
(*                                                                         *)
(* hopsSeen is left out: it has the members of forwardedIds and is never   *)
(* above 1, so the limit of 5 hops stops nothing.  The tunnel is wired as  *)
(* `up` does it by default: rebuilding it leaves the peer's port, and so   *)
(* the key of peerHealth, as it was.  checkPeerHealth is never called.     *)
(***************************************************************************)
EXTENDS Naturals, FiniteSets, Sequences

CONSTANTS
  Devices,     \* devices with a daemon and a bridge, each a peer of the others
  Agents,      \* names of agents
  Home,        \* Home[a]: the device of agent a
  Writers,     \* those that write to agents of other devices
  SameNames,   \* are bridges named as the daemons name their devices?
  Limit,       \* rows one query returns
  MaxMessages, \* bound: messages written
  MaxFaults    \* bound: restarts, reaped rows, agents that go, lost answers

ASSUME HomeAssumption == Home \in [Agents -> Devices] /\ Writers \subseteq Agents
ASSUME FiniteAssumption == IsFiniteSet(Devices) /\ IsFiniteSet(Agents)
ASSUME BoundsAssumption ==
  /\ Limit \in Nat \ {0} /\ SameNames \in BOOLEAN
  /\ {MaxMessages, MaxFaults} \subseteq Nat

VARIABLES
  here,        \* agents registered on their device
  rows,        \* rows[d][a]: agent_id of the shadow row of a in d's daemon, 0 if none
  issued,      \* issued[d]: agent_ids d's daemon has given to shadows
  mail,        \* mail[d]: messages to shadows in d's daemon; the place is event_id
  roster,      \* remoteRoster
  shadow,      \* shadowMap[a].agent_id, 0 if there is no entry
  registering, \* shadows whose registration is under way
  cursor,      \* lastEventId
  forwarded,   \* forwardedIds
  failures,    \* peerHealth[p].consecutive_failures
  loop,        \* where the main loop stands
  todo,        \* peers or shadows left in its present turn
  batch,       \* rows it is forwarding: for whom, all that were read, those left
  answer,      \* messages it has pulled and not yet delivered
  calls,       \* deliveries on their way or being handled
  run,         \* how often each bridge was started
  faults,      \* faults so far, for the bound
  injected,    \* history: how often each message got to its recipient's daemon
  pulled       \* history: messages handed out in the answer to a pull

daemonVars == <<here, rows, issued, mail>>
shadowVars == <<roster, shadow, registering>>
sendVars == <<cursor, forwarded, failures>>
loopVars == <<loop, todo, batch, answer>>
historyVars == <<injected, pulled>>
vars == <<daemonVars, shadowVars, sendVars, loopVars, calls, run, faults, historyVars>>

NoBatch == [id |-> 0, read |-> {}, left |-> {}]
Messages == 1..MaxMessages
Turns == {"gossip", "forward", "wait", "pull", "ask", "deliver"}
Least(S) == CHOOSE n \in S : \A k \in S : n <= k
Greatest(S) == CHOOSE n \in S : \A k \in S : k <= n

Fault == faults < MaxFaults /\ faults' = faults + 1

Located(d) == {a \in Agents : Home[a] = d}
Remote(d) == {a \in Agents : Home[a] # d}

-----------------------------------------------------------------------------
(* The roster and the shadows *)

\* /api/register: the row of that name keeps its id, a reaped one is made anew.
Registers(d, a) ==
  IF rows[d][a] # 0 THEN UNCHANGED <<rows, issued>>
  ELSE /\ issued' = [issued EXCEPT ![d] = @ + 1]
       /\ rows' = [rows EXCEPT ![d][a] = issued[d] + 1]

RowId(d, a) == IF rows[d][a] # 0 THEN rows[d][a] ELSE issued[d] + 1

\* _pruneShadows, once the shadows in the roster are refreshed.
TooOld(aged, known) == aged \ known

\* handleRoster: merge what the peer says, refresh the shadows in the roster,
\* register those that are missing, then prune (of the shadows that were not
\* refreshed for two minutes, `aged`) those still too old.
HandleRoster(d, named) ==
  \E aged \in SUBSET {a \in Agents : shadow[d][a] # 0} :
  LET known == roster[d] \cup named
      missing == {a \in known : shadow[d][a] = 0}
      old == TooOld(aged, known)
  IN /\ roster' = [roster EXCEPT ![d] = known]
     /\ registering' = [registering EXCEPT ![d] = @ \cup missing]
     /\ shadow' = [shadow EXCEPT ![d] = [a \in Agents |-> IF a \in old THEN 0 ELSE @[a]]]
     /\ rows' = [rows EXCEPT ![d] = [a \in Agents |-> IF a \in old THEN 0 ELSE @[a]]]

\* gossipRoster: the agents of the device, not its shadows; an empty roster is
\* not sent.
Gossip(d, p) ==
  /\ loop[d] = "gossip" /\ p \in todo[d]
  /\ todo' = [todo EXCEPT ![d] = @ \ {p}]
  /\ IF Located(d) \cap here # {} THEN HandleRoster(p, Located(d) \cap here)
     ELSE UNCHANGED <<rows, shadowVars>>
  /\ UNCHANGED <<here, issued, mail, sendVars, loop, batch, answer, calls, run, faults, historyVars>>

\* _registerShadow: the daemon has answered.
Registered(d, a) ==
  /\ a \in registering[d]
  /\ Registers(d, a)
  /\ shadow' = [shadow EXCEPT ![d][a] = RowId(d, a)]
  /\ registering' = [registering EXCEPT ![d] = @ \ {a}]
  /\ UNCHANGED <<here, mail, roster, sendVars, loopVars, calls, run, faults, historyVars>>

-----------------------------------------------------------------------------
(* Pushing: forwardOutbound *)

\* getShadowMessages: rows past the cursor, oldest first, so many at a time.
Waiting(d, id) ==
  LET after == {n \in 1..Len(mail[d]) : mail[d][n].to = id /\ n > cursor[d][id]}
  IN {n \in after : Cardinality({k \in after : k < n}) < Limit}

\* mutant: a fourth failure is counted
HealthyAlways(d, p) == failures[d][p] < 4

\* _findPeerForAgent: the device the roster names, or the only peer there is.
PeerOf(a) == Home[a]

Healthy(d, p) == failures[d][p] < 3

\* On to the next shadow.
Ends(d) == loop' = [loop EXCEPT ![d] = "forward"] /\ batch' = [batch EXCEPT ![d] = NoBatch]

\* The cursor moves to the last row read, or after a failure to the last one
\* of the batch that was forwarded.
Advances(d, done) ==
  IF done = {} THEN UNCHANGED cursor
  ELSE cursor' = [cursor EXCEPT ![d][batch[d].id] = Greatest(done)]

DoneOf(d) == {n \in batch[d].read : mail[d][n].msg \in forwarded[d]}

\* The rows of one shadow of shadowMap.
Read(d, a) ==
  /\ loop[d] = "forward" /\ batch[d] = NoBatch /\ a \in todo[d]
  /\ todo' = [todo EXCEPT ![d] = @ \ {a}]
  /\ LET found == Waiting(d, shadow[d][a])
     IN batch' = IF shadow[d][a] = 0 \/ found = {} THEN batch
                 ELSE [batch EXCEPT ![d] = [id |-> shadow[d][a], read |-> found, left |-> found]]
  /\ UNCHANGED <<daemonVars, shadowVars, sendVars, loop, answer, calls, run, faults, historyVars>>

Current(d) == mail[d][Least(batch[d].left)]

Skip(d) ==
  /\ loop[d] = "forward" /\ batch[d].left # {}
  /\ Current(d).msg \in forwarded[d]
  /\ batch' = [batch EXCEPT ![d].left = @ \ {Least(@)}]
  /\ UNCHANGED <<daemonVars, shadowVars, sendVars, loop, todo, answer, calls, run, faults, historyVars>>

\* All rows of the batch were looked at.
Forwarded(d) ==
  /\ loop[d] = "forward" /\ batch[d] # NoBatch /\ batch[d].left = {}
  /\ Advances(d, batch[d].read)
  /\ Ends(d)
  /\ UNCHANGED <<daemonVars, shadowVars, forwarded, failures, todo, answer, calls, run, faults, historyVars>>

\* The peer failed three times: the message stays, and so do those behind it.
HoldBack(d) ==
  /\ loop[d] = "forward" /\ batch[d].left # {}
  /\ Current(d).msg \notin forwarded[d]
  /\ ~Healthy(d, PeerOf(Current(d).name))
  /\ Advances(d, DoneOf(d))
  /\ Ends(d)
  /\ UNCHANGED <<daemonVars, shadowVars, forwarded, failures, todo, answer, calls, run, faults, historyVars>>

\* peerPost of the message; `try` and `run` tell one request from another.
CallOf(d, p, row, how) ==
  [from |-> d, to |-> p, msg |-> row.msg, name |-> row.name, by |-> row.by, how |-> how,
   run |-> run[d], try |-> failures[d][p], stage |-> "sent", again |-> FALSE]

Post(d) ==
  /\ loop[d] = "forward" /\ batch[d].left # {}
  /\ Current(d).msg \notin forwarded[d]
  /\ LET p == PeerOf(Current(d).name)
     IN /\ Healthy(d, p)
        /\ calls' = calls \cup {CallOf(d, p, Current(d), "push")}
  /\ loop' = [loop EXCEPT ![d] = "wait"]
  /\ UNCHANGED <<daemonVars, shadowVars, sendVars, todo, batch, answer, run, faults, historyVars>>

Awaited(d, c) ==
  /\ loop[d] = "wait" /\ c.how = "push" /\ c.from = d
  /\ c.run = run[d] /\ c.try = failures[d][c.to] /\ c.msg = Current(d).msg

Succeeds(d, c) ==
  /\ Awaited(d, c) /\ c.stage = "ok"
  /\ forwarded' = [forwarded EXCEPT ![d] = @ \cup {c.msg}]
  /\ failures' = [failures EXCEPT ![d][c.to] = 0]
  /\ calls' = calls \ {c}
  /\ loop' = [loop EXCEPT ![d] = "forward"]
  /\ batch' = [batch EXCEPT ![d].left = @ \ {Least(@)}]
  /\ UNCHANGED <<daemonVars, shadowVars, cursor, todo, answer, run, faults, historyVars>>

\* recordForwardFailure: an error, a reset connection, or no answer in 10 s.
\* The handler of a request that timed out goes on.
Fails(d) ==
  /\ loop[d] = "wait"
  /\ \/ /\ \A c \in calls : Awaited(d, c) => c.stage = "error"
        /\ UNCHANGED faults
     \/ Fault
  /\ failures' = [failures EXCEPT ![d][PeerOf(Current(d).name)] = @ + 1]
  /\ calls' = {c \in calls : Awaited(d, c) => c.stage \notin {"ok", "error"}}
  /\ Advances(d, DoneOf(d))
  /\ Ends(d)
  /\ UNCHANGED <<daemonVars, shadowVars, forwarded, todo, answer, run, historyVars>>

-----------------------------------------------------------------------------
(* Delivery on the peer: handleDeliver *)

Moves(c, stage) == calls' = (calls \ {c}) \cup {[c EXCEPT !.stage = stage]}

\* The answer of a push waits for the loop that wants it; a pull goes on.
Answers(c, stage) ==
  IF c.how = "push" /\ Awaited(c.from, c) THEN Moves(c, stage) ELSE calls' = calls \ {c}

\* mutant: without the duplicate check
BeginUnchecked(c) ==
  /\ c \in calls /\ c.stage = "sent"
  /\ calls' = (calls \ {c}) \cup {[c EXCEPT !.stage = "inject", !.again = injected[c.msg] > 0]}
  /\ UNCHANGED <<daemonVars, shadowVars, sendVars, loopVars, run, faults, historyVars>>

\* The duplicate check comes before the first await.
Begin(c) ==
  /\ c \in calls /\ c.stage = "sent"
  /\ IF c.msg \in forwarded[c.to] THEN Answers(c, "error")
     ELSE calls' = (calls \ {c}) \cup {[c EXCEPT !.stage = "inject", !.again = injected[c.msg] > 0]}
  /\ UNCHANGED <<daemonVars, shadowVars, sendVars, loopVars, run, faults, historyVars>>

\* mutant: marked as forwarded before the daemon has it
InjectMarkedFirst(c) ==
  /\ c \in calls /\ c.stage = "inject"
  /\ Registers(c.to, c.by)
  /\ forwarded' = [forwarded EXCEPT ![c.to] = @ \cup {c.msg}]
  /\ IF c.name \in here
     THEN injected' = [injected EXCEPT ![c.msg] = @ + 1] /\ Answers(c, "ok")
     ELSE Answers(c, "error") /\ UNCHANGED injected
  /\ UNCHANGED <<here, mail, shadowVars, cursor, failures, loopVars, run, faults, pulled>>

\* Two requests to the own daemon: /api/register makes the sender an agent
\* there; /api/send fails unless the recipient is registered.
Inject(c) ==
  /\ c \in calls /\ c.stage = "inject"
  /\ Registers(c.to, c.by)
  /\ IF c.name \in here
     THEN /\ injected' = [injected EXCEPT ![c.msg] = @ + 1]
          /\ forwarded' = [forwarded EXCEPT ![c.to] = @ \cup {c.msg}]
          /\ Answers(c, "ok")
     ELSE Answers(c, "error") /\ UNCHANGED <<injected, forwarded>>
  /\ UNCHANGED <<here, mail, shadowVars, cursor, failures, loopVars, run, faults, pulled>>

-----------------------------------------------------------------------------
(* Pulling: pullFromPeer *)

\* GET /peer/roster of the peer.
PullRoster(d, p) ==
  /\ loop[d] = "pull" /\ p \in todo[d]
  /\ todo' = [todo EXCEPT ![d] = @ \ {p}]
  /\ IF Located(p) \cap here # {} THEN HandleRoster(d, Located(p) \cap here)
     ELSE UNCHANGED <<rows, shadowVars>>
  /\ loop' = [loop EXCEPT ![d] = "ask"]
  /\ answer' = [answer EXCEPT ![d] = [from |-> p, left |-> {}]]
  /\ UNCHANGED <<here, issued, mail, sendVars, batch, calls, run, faults, historyVars>>

\* mutant: the shadow map is keyed by device, the request by peer
ShadowsOfNone(d, p) == {a \in Located(d) : SameNames /\ shadow[d][a] # 0}

\* Shadows of d whose remote_device is the name of bridge p.
ShadowsOf(d, p) == {a \in Located(p) : SameNames /\ shadow[d][a] # 0}

\* GET /peer/outbound: only if a shadow here is of the peer.  collectOutbound
\* marks the rows as forwarded and moves past them before it answers; the
\* answer may be lost.
Collect(d) ==
  LET p == answer[d].from
      asked == {a \in ShadowsOf(p, d) : Waiting(p, shadow[p][a]) # {}}
      found == UNION {Waiting(p, shadow[p][a]) : a \in asked}
      new == {n \in found : mail[p][n].msg \notin forwarded[p]}
  IN /\ loop[d] = "ask" /\ ShadowsOf(d, p) # {}
     /\ forwarded' = [forwarded EXCEPT ![p] = @ \cup {mail[p][n].msg : n \in found}]
     /\ cursor' = [cursor EXCEPT ![p] =
          [i \in DOMAIN @ |-> IF \E a \in asked : shadow[p][a] = i
                              THEN Greatest(Waiting(p, i)) ELSE @[i]]]
     /\ pulled' = pulled \cup {mail[p][n].msg : n \in new}
     /\ \/ /\ answer' = [answer EXCEPT ![d].left = new]
           /\ loop' = [loop EXCEPT ![d] = "deliver"]
           /\ UNCHANGED faults
        \/ /\ Fault
           /\ loop' = [loop EXCEPT ![d] = "pull"]
           /\ UNCHANGED answer
  /\ UNCHANGED <<daemonVars, shadowVars, failures, todo, batch, calls, run, injected>>

Delivering(d) == \E c \in calls : c.to = d /\ c.how = "pull"

\* The messages of the answer, one after the other; an error is not looked at.
DeliverNext(d) ==
  /\ loop[d] = "deliver" /\ ~Delivering(d) /\ answer[d].left # {}
  /\ LET p == answer[d].from
         n == Least(answer[d].left)
     IN calls' = calls \cup {CallOf(p, d, mail[p][n], "pull")}
  /\ answer' = [answer EXCEPT ![d].left = @ \ {Least(@)}]
  /\ UNCHANGED <<daemonVars, shadowVars, sendVars, loop, todo, batch, run, faults, historyVars>>

PullEnds(d) ==
  /\ \/ loop[d] = "ask" /\ ShadowsOf(d, answer[d].from) = {}
     \/ loop[d] = "deliver" /\ answer[d].left = {} /\ ~Delivering(d)
  /\ loop' = [loop EXCEPT ![d] = "pull"]
  /\ UNCHANGED <<daemonVars, shadowVars, sendVars, todo, batch, answer, calls, run, faults, historyVars>>

\* The turns of the main loop.  Forwarding is due more often than the others.
TurnTo(d, from, to, all) ==
  /\ loop[d] = from /\ todo[d] = {} /\ batch[d] = NoBatch
  /\ loop' = [loop EXCEPT ![d] = to]
  /\ todo' = [todo EXCEPT ![d] = all]
  /\ UNCHANGED <<daemonVars, shadowVars, sendVars, batch, answer, calls, run, faults, historyVars>>

Peers(d) == Devices \ {d}
Shadows(d) == {a \in Agents : shadow[d][a] # 0}

TurnToForward(d) == \E from \in {"gossip", "forward"} : TurnTo(d, from, "forward", Shadows(d))
TurnToPull(d) == TurnTo(d, "forward", "pull", Peers(d))
TurnToGossip(d) == TurnTo(d, "pull", "gossip", Peers(d))

-----------------------------------------------------------------------------
(* Agents, daemons and restarts *)

\* An agent writes to a shadow of its device.
Write(a, b) ==
  LET d == Home[a]
      m == 1 + Cardinality(UNION {{e} \X (1..Len(mail[e])) : e \in Devices})
  IN /\ a \in here /\ Home[b] # d /\ rows[d][b] # 0
     /\ m <= MaxMessages
     /\ mail' = [mail EXCEPT ![d] = Append(@, [msg |-> m, to |-> rows[d][b], name |-> b, by |-> a])]
     /\ UNCHANGED <<here, rows, issued, shadowVars, sendVars, loopVars, calls, run, faults, historyVars>>

\* An agent that went registers again.
Come(a) ==
  /\ a \notin here /\ here' = here \cup {a}
  /\ UNCHANGED <<rows, issued, mail, shadowVars, sendVars, loopVars, calls, run, faults, historyVars>>

Go(a) ==
  /\ Fault
  /\ a \in here /\ here' = here \ {a}
  /\ UNCHANGED <<rows, issued, mail, shadowVars, sendVars, loopVars, calls, run, historyVars>>

\* The daemon drops a row without a heartbeat; the bridge is not told.
Reap(d, a) ==
  /\ Fault
  /\ rows[d][a] # 0 /\ rows' = [rows EXCEPT ![d][a] = 0]
  /\ UNCHANGED <<here, issued, mail, shadowVars, sendVars, loopVars, calls, run, historyVars>>

Restart(d) ==
  /\ Fault
  /\ run' = [run EXCEPT ![d] = @ + 1]
  /\ roster' = [roster EXCEPT ![d] = {}]
  /\ shadow' = [shadow EXCEPT ![d] = [a \in Agents |-> 0]]
  /\ registering' = [registering EXCEPT ![d] = {}]
  /\ cursor' = [cursor EXCEPT ![d] = [i \in DOMAIN @ |-> 0]]
  /\ forwarded' = [forwarded EXCEPT ![d] = {}]
  /\ failures' = [failures EXCEPT ![d] = [p \in Devices |-> 0]]
  /\ loop' = [loop EXCEPT ![d] = "gossip"]
  /\ todo' = [todo EXCEPT ![d] = Devices \ {d}]
  /\ batch' = [batch EXCEPT ![d] = NoBatch]
  /\ answer' = [answer EXCEPT ![d] = [from |-> d, left |-> {}]]
  /\ calls' = {c \in calls : c.to # d /\ (c.from = d => c.stage \notin {"ok", "error"})}
  /\ UNCHANGED <<daemonVars, historyVars>>

-----------------------------------------------------------------------------
Ids == 1..(Cardinality(Agents) + MaxFaults)

Init ==
  /\ here = Agents
  /\ rows = [d \in Devices |-> [a \in Agents |-> 0]]
  /\ issued = [d \in Devices |-> 0]
  /\ mail = [d \in Devices |-> <<>>]
  /\ roster = [d \in Devices |-> {}]
  /\ shadow = [d \in Devices |-> [a \in Agents |-> 0]]
  /\ registering = [d \in Devices |-> {}]
  /\ cursor = [d \in Devices |-> [i \in Ids |-> 0]]
  /\ forwarded = [d \in Devices |-> {}]
  /\ failures = [d \in Devices |-> [p \in Devices |-> 0]]
  /\ loop = [d \in Devices |-> "gossip"]
  /\ todo = [d \in Devices |-> Devices \ {d}]
  /\ batch = [d \in Devices |-> NoBatch]
  /\ answer = [d \in Devices |-> [from |-> d, left |-> {}]]
  /\ calls = {}
  /\ run = [d \in Devices |-> 0] /\ faults = 0
  /\ injected = [m \in Messages |-> 0] /\ pulled = {}

\* The handlers of requests, and the main loop of runCore.
Handle(d) ==
  \/ \E a \in Agents : Registered(d, a)
  \/ \E c \in calls : c.to = d /\ (Begin(c) \/ Inject(c))

Push(d) ==
  \/ \E a \in Agents : Read(d, a)
  \/ Skip(d) \/ Forwarded(d) \/ HoldBack(d) \/ Post(d) \/ Fails(d)
  \/ \E c \in calls : Succeeds(d, c)

Pull(d) == (\E p \in Devices : PullRoster(d, p)) \/ Collect(d) \/ DeliverNext(d) \/ PullEnds(d)

MainLoop(d) ==
  \/ \E p \in Devices : Gossip(d, p)
  \/ Push(d) \/ Pull(d)
  \/ TurnToForward(d) \/ TurnToPull(d) \/ TurnToGossip(d)

Next ==
  \/ \E d \in Devices : Handle(d) \/ MainLoop(d) \/ Restart(d)
  \/ \E d \in Devices, a \in Agents : Reap(d, a)
  \/ \E a \in Writers, b \in Agents : Write(a, b)
  \/ \E a \in Agents : Come(a) \/ Go(a)

\* Each bridge runs its loop and serves its requests; gossip and pulling come
\* due however often forwarding does.
Fairness ==
  \A d \in Devices : WF_vars(Handle(d)) /\ WF_vars(MainLoop(d)) /\ SF_vars(TurnToPull(d))

Spec == Init /\ [][Next]_vars /\ Fairness

-----------------------------------------------------------------------------
(* Properties *)

Calls ==
  [from : Devices, to : Devices, msg : Messages, name : Agents, by : Agents, how : {"push", "pull"},
   run : 0..MaxFaults, try : 0..3, stage : {"sent", "inject", "ok", "error"},
   again : BOOLEAN]

\* Types of the bridges' memory: three failures at most are counted, and an
\* agent_id is one the daemon has given.
TypeOK ==
  /\ here \subseteq Agents
  /\ \A d \in Devices :
       /\ issued[d] \in {0} \cup Ids
       /\ rows[d] \in [Agents -> 0..issued[d]] /\ shadow[d] \in [Agents -> 0..issued[d]]
       /\ roster[d] \subseteq Remote(d) /\ registering[d] \subseteq roster[d]
       /\ cursor[d] \in [Ids -> 0..Len(mail[d])]
       /\ failures[d] \in [Devices -> 0..3]
       /\ batch[d].left \subseteq batch[d].read
  /\ loop \in [Devices -> Turns]
  /\ calls \subseteq Calls
  /\ injected \in [Messages -> Nat] /\ pulled \subseteq Messages

\* A bridge takes a message for forwarded only if it is in the recipient's
\* daemon or was handed out in the answer to a pull (the one way to lose it).
ForwardedArrived ==
  \A d \in Devices : \A m \in forwarded[d] : injected[m] > 0 \/ m \in pulled

\* A message gets into the recipient's daemon a second time only if its second
\* delivery had begun before the first one ended, or the bridge there has
\* restarted: retries after a lost answer are recognised.
SecondOnlyByOverlap ==
  [][\A c \in calls : Inject(c) /\ c.again => run[c.to] > 0]_vars

\* A message in the daemon of d, to a shadow that the bridge polls, that was
\* not handed over.
Pending(d, n) ==
  /\ n <= Len(mail[d])
  /\ shadow[d][mail[d][n].name] = mail[d][n].to
  /\ mail[d][n].msg \notin forwarded[d]

\* A message to an agent whose shadow the bridge polls does not wait for ever,
\* even for a peer that failed three times: the peer pulls it, as long as
\* someone on this device makes it known there.
WaitingIsHandedOver ==
  \A d \in {Home[a] : a \in Writers}, n \in Messages :
    Pending(d, n) ~> (~Pending(d, n) \/ Located(d) \cap here = {})

=============================================================================
