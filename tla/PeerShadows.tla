----------------------------- MODULE PeerShadows -----------------------------
(***************************************************************************)
(* The shadows of one paired peer's agents (lib/peer-federation): a sync   *)
(* pass every five seconds reads the peer's roster and keeps a row of the  *)
(* local daemon alive for each remote agent, by POST /api/register and     *)
(* POST /api/heartbeat; the daemon's reaper removes the rows that are not  *)
(* kept alive; revocation forgets the peer while a pass may be under way.  *)
(* Every await of the runtime is a step boundary.                          *)
(*                                                                         *)
(* Time is counted in ticks of 20 s, after which a heartbeat is due again. *)
(* A pass is taken to end within a tick, so that one starts and ends       *)
(* between two ticks.  A shadow's agent_id is abstracted to whether it is  *)
(* that of the row now under the shadow's name ("row") or that of a row    *)
(* that was deleted ("dead"): ids are never reused.                        *)
(***************************************************************************)
EXTENDS Naturals, FiniteSets

CONSTANTS
  Remotes,  \* agents of the peer, each with its shadow name here
  Ttl       \* ticks without a sign of life before a row is reaped

ASSUME TtlAssumption == Ttl \in Nat \ {0}

VARIABLES
  remote,     \* the peer's public roster
  trust,      \* trust store: is the peer in it
  up,         \* the peer runtime is running
  rows,       \* daemon: the shadows that have a row
  age,        \* daemon: ticks since each row's last_seen_at
  shadows,    \* runtime: the agent_id cached for each shadow
  due,        \* runtime: lastHeartbeatAt is more than 20 s ago
  listed,     \* runtime: the agents in remoteAgents
  connected,  \* runtime: peerStates says the peer is connected
  pass,       \* runtime: where refreshPeer is
  todo,       \* runtime: the roster being worked off
  call,       \* runtime: the local request now awaited
  doomed,     \* runtime: rows forgetPeer has yet to deregister
  forgetting, \* runtime: forgetPeer is waiting for the local roster
  synced,     \* a pass ended since the last tick
  settled     \* history: the last pass succeeded, for a peer still trusted

rowVars == <<rows, age>>
mapVars == <<shadows, due, listed, connected>>
passVars == <<pass, todo, call>>
forgetVars == <<doomed, forgetting>>
shadowsVars == <<remote, trust, up, rowVars, mapVars, passVars, forgetVars,
          synced, settled>>

NoCall == [agent |-> "none", op |-> "none", at |-> "none", id |-> "none"]

-----------------------------------------------------------------------------
(* The daemon's rows *)

\* The rows of R are deleted: what named them names nothing any more.
Dead(id) == IF id = "row" THEN "dead" ELSE id

DeleteRows(R) ==
  /\ rows' = rows \ R
  /\ age' = [r \in Remotes |-> IF r \in R THEN 0 ELSE age[r]]
  /\ shadows' = [r \in Remotes |-> IF r \in R THEN Dead(shadows[r]) ELSE shadows[r]]
  /\ call' = IF call.agent \in R THEN [call EXCEPT !.id = Dead(@)] ELSE call
  /\ doomed' = doomed \ R

\* Register or heartbeat: last_seen_at is now.
Touch(r) ==
  /\ rows' = rows \cup {r}
  /\ age' = [age EXCEPT ![r] = 0]

Tick ==
  /\ up /\ (trust \/ pass # "idle") => synced
  /\ age' = [r \in Remotes |-> IF r \in rows /\ age[r] < Ttl THEN age[r] + 1 ELSE age[r]]
  /\ due' = [r \in Remotes |-> shadows[r] # "none"]
  /\ synced' = FALSE
  /\ UNCHANGED <<remote, trust, up, rows, shadows, listed, connected,
                 passVars, forgetVars, settled>>

\* A shadow is no keyed Claude row: the reaper deletes it.
Reap ==
  /\ DeleteRows({r \in rows : age[r] >= Ttl})
  /\ UNCHANGED <<remote, trust, up, due, listed, connected, pass, todo,
                 forgetting, synced, settled>>

-----------------------------------------------------------------------------
(* The peer, the network and the user *)

RosterChanges(r) ==
  /\ remote' = IF r \in remote THEN remote \ {r} ELSE remote \cup {r}
  /\ UNCHANGED <<trust, up, rowVars, mapVars, passVars, forgetVars, synced, settled>>

\* POST /trust, and the approval of a pairing request.
Trust ==
  /\ ~trust
  /\ trust' = TRUE
  /\ synced' = FALSE
  /\ UNCHANGED <<remote, up, rowVars, mapVars, passVars, forgetVars, settled>>

\* The runtime's maps live in memory.
RuntimeStops ==
  /\ up
  /\ up' = FALSE
  /\ shadows' = [r \in Remotes |-> "none"]
  /\ due' = [r \in Remotes |-> FALSE]
  /\ listed' = {} /\ connected' = FALSE
  /\ pass' = "idle" /\ todo' = {} /\ call' = NoCall
  /\ doomed' = {} /\ forgetting' = FALSE
  /\ settled' = FALSE
  /\ UNCHANGED <<remote, trust, rowVars, synced>>

RuntimeStarts ==
  /\ ~up
  /\ up' = TRUE
  /\ synced' = FALSE
  /\ UNCHANGED <<remote, trust, rowVars, mapVars, passVars, forgetVars, settled>>

-----------------------------------------------------------------------------
(* syncOnce and refreshPeer, for this peer *)

Ended ==
  /\ pass' = "idle" /\ todo' = {} /\ call' = NoCall
  /\ synced' = TRUE

\* mutant: the pass goes through the peers it knows, not those it trusts.
SyncStartKnown ==
  /\ up /\ (trust \/ listed # {}) /\ pass = "idle"
  /\ pass' = "asked"
  /\ UNCHANGED <<remote, trust, up, rowVars, mapVars, todo, call,
                 forgetVars, synced, settled>>

\* setInterval: a pass begins if none is under way, and asks for the roster.
SyncStart ==
  /\ up /\ trust /\ pass = "idle"
  /\ pass' = "asked"
  /\ UNCHANGED <<remote, trust, up, rowVars, mapVars, todo, call,
                 forgetVars, synced, settled>>

\* The peer's roster and the local one are there: agents that left are dropped.
RosterRead ==
  /\ pass = "asked"
  /\ pass' = "ensure"
  /\ todo' = remote
  /\ listed' = listed \cap remote
  /\ UNCHANGED <<remote, trust, up, rowVars, shadows, due, connected,
                 call, forgetVars, synced, settled>>

Ensuring(r) == pass = "ensure" /\ call = NoCall /\ r \in todo

\* mutant: a cached shadow needs no heartbeat.
EnsureCachedAlways(r) ==
  /\ Ensuring(r) /\ shadows[r] # "none"
  /\ todo' = todo \ {r}
  /\ listed' = listed \cup {r}
  /\ UNCHANGED <<remote, trust, up, rowVars, shadows, due, connected,
                 pass, call, forgetVars, synced, settled>>

\* ensureShadow: a cached shadow whose heartbeat is not due yet.
EnsureCached(r) ==
  /\ Ensuring(r) /\ shadows[r] # "none" /\ ~due[r]
  /\ todo' = todo \ {r}
  /\ listed' = listed \cup {r}
  /\ UNCHANGED <<remote, trust, up, rowVars, shadows, due, connected,
                 pass, call, forgetVars, synced, settled>>

\* ensureShadow: heartbeat for a cached shadow, else register.
Issue(r) ==
  /\ Ensuring(r) /\ (shadows[r] = "none" \/ due[r])
  /\ call' = [agent |-> r, at |-> "sent", id |-> shadows[r],
              op |-> IF shadows[r] = "none" THEN "register" ELSE "heartbeat"]
  /\ UNCHANGED <<remote, trust, up, rowVars, mapVars, pass, todo,
                 forgetVars, synced, settled>>

\* The daemon answers.  A heartbeat for a deleted row is a 404; register takes
\* over the row under the shadow's name or inserts one.
Serve ==
  /\ call.at = "sent"
  /\ IF call.op = "heartbeat" /\ call.id = "dead"
     THEN call' = [call EXCEPT !.at = "error"] /\ UNCHANGED rowVars
     ELSE call' = [call EXCEPT !.at = "ok", !.id = "row"] /\ Touch(call.agent)
  /\ UNCHANGED <<remote, trust, up, mapVars, pass, todo, forgetVars,
                 synced, settled>>

\* The answer comes back: the shadow is cached and the agent listed, whatever
\* forgetPeer did in the meantime.
Complete ==
  /\ call.at = "ok"
  /\ shadows' = IF call.op = "register" THEN [shadows EXCEPT ![call.agent] = call.id]
                                        ELSE shadows
  /\ due' = [due EXCEPT ![call.agent] = FALSE]
  /\ listed' = listed \cup {call.agent}
  /\ todo' = todo \ {call.agent}
  /\ call' = NoCall
  /\ UNCHANGED <<remote, trust, up, rowVars, connected, pass, forgetVars,
                 synced, settled>>

Failed ==
  /\ Ended
  /\ connected' = FALSE /\ settled' = FALSE
  /\ UNCHANGED <<remote, trust, up, rowVars, shadows, due, listed, forgetVars>>

\* An error answer to a local request ends the pass for this peer.
SyncFail == call.at = "error" /\ Failed

\* So does the peer or the daemon that cannot be reached or answers too late.
Outage == pass # "idle" /\ call.at # "error" /\ Failed

Finish ==
  /\ pass = "ensure" /\ todo = {}
  /\ Ended
  /\ connected' = TRUE /\ settled' = trust
  /\ UNCHANGED <<remote, trust, up, rowVars, shadows, due, listed, forgetVars>>

-----------------------------------------------------------------------------
(* revoke and forgetPeer *)

RevokePeer ==
  /\ up /\ trust /\ ~forgetting /\ doomed = {}
  /\ trust' = FALSE
  /\ listed' = {} /\ connected' = FALSE /\ settled' = FALSE
  /\ doomed' = {r \in Remotes : shadows[r] = "row"}
  /\ shadows' = [r \in Remotes |-> "none"]
  /\ due' = [r \in Remotes |-> FALSE]
  /\ forgetting' = TRUE
  /\ UNCHANGED <<remote, up, rowVars, passVars, synced>>

\* The rows under the peer's prefix, those of earlier runs included, unless the
\* daemon fails to list them.
ForgetList ==
  /\ forgetting
  /\ forgetting' = FALSE
  /\ doomed' \in {doomed, doomed \cup rows}
  /\ UNCHANGED <<remote, trust, up, rowVars, mapVars, passVars, synced, settled>>

\* POST /api/deregister; a failure is logged and the row left to the reaper.
ForgetDelete(r) ==
  /\ ~forgetting /\ r \in doomed
  /\ \/ DeleteRows({r})
     \/ doomed' = doomed \ {r} /\ UNCHANGED <<rowVars, shadows, call>>
  /\ UNCHANGED <<remote, trust, up, due, listed, connected, pass, todo,
                 forgetting, synced, settled>>

-----------------------------------------------------------------------------
ShadowsInit ==
  /\ remote = {} /\ trust = TRUE /\ up = TRUE
  /\ rows = {} /\ age = [r \in Remotes |-> 0]
  /\ shadows = [r \in Remotes |-> "none"] /\ due = [r \in Remotes |-> FALSE]
  /\ listed = {} /\ connected = FALSE
  /\ pass = "idle" /\ todo = {} /\ call = NoCall
  /\ doomed = {} /\ forgetting = FALSE
  /\ synced = FALSE /\ settled = FALSE

Pass ==
  \/ RosterRead \/ Serve \/ Complete \/ SyncFail \/ Outage \/ Finish
  \/ \E r \in Remotes : EnsureCached(r) \/ Issue(r)

Forget == ForgetList \/ \E r \in Remotes : ForgetDelete(r)

ShadowsNext ==
  \/ Tick \/ Reap
  \/ \E r \in Remotes : RosterChanges(r)
  \/ Trust \/ RuntimeStops \/ RuntimeStarts
  \/ SyncStart \/ Pass
  \/ RevokePeer \/ Forget

\* Time passes, however often the runtime is restarted or the peer paired anew;
\* the reaper and the passes are driven by setInterval; every request of a pass
\* has a timeout.
ShadowsSpec ==
  /\ ShadowsInit /\ [][ShadowsNext]_shadowsVars
  /\ SF_shadowsVars(Tick) /\ WF_shadowsVars(Reap)
  /\ WF_shadowsVars(SyncStart) /\ WF_shadowsVars(Pass)

-----------------------------------------------------------------------------
(* Properties *)

\* While the passes succeed, the reaper removes no shadow of an agent on the
\* peer's roster: heartbeats are sent often enough, whatever a pass does in
\* what order.
SettledIsNotReaped ==
  [][settled /\ Reap => \A r \in listed : shadows[r] = "row" => r \in rows']_shadowsVars

\* "Removes local trust and reconnect state" (docs/stage1-networking.md): once
\* a peer is revoked for good its shadows go away, although a pass under way
\* may register one after forgetPeer listed them, and a deregistration may fail.
RevokedShadowsFade == <>[]~trust => <>[](rows = {})

=============================================================================
