-------------------------------- MODULE Wake --------------------------------
(***************************************************************************)
(* Waking the recipients of a message (daemon/src/mcp: auto-poke-fanout,   *)
(* poke, transport-dispatch, poke-guard, poke-retry, delivery-status).     *)
(*                                                                         *)
(* Once a message is written, each recipient is poked over the transport   *)
(* its row names: a channel, an app server, or keystrokes in its tmux pane *)
(* after a quiet guard.  When all pokes of the message are over, a status  *)
(* row is written for each recipient, and those whose poke failed get a    *)
(* timer, in memory only, that guards and pokes again up to three times.   *)
(* Rows change, recipients become active and the daemon restarts between   *)
(* any two of these steps.                                                 *)
(*                                                                         *)
(* A wake is a message and one of its recipients.  The delays of 30, 180   *)
(* and 600 s are not modelled: a timer that is set may fire.               *)
(***************************************************************************)
EXTENDS Naturals

CONSTANTS
  Messages,  \* ids of messages
  Agents,    \* agents that send and receive them
  Rows,      \* what an agents row may say of how its agent is reached
  MaxBinds   \* bound: changes made to the rows

\* agent_type; does delivery name a transport; is tmux_pane_id set.
Row == [type : {"claude-code", "codex", "opencode", "other"}, linked : BOOLEAN, pane : BOOLEAN]

ASSUME RowsAssumption == Rows \subseteq Row
ASSUME BindsAssumption == MaxBinds \in Nat
ASSUME AgentsAssumption == "nobody" \notin Agents

VARIABLES
  row,      \* agents table
  binds,    \* how often it was changed
  tmux,     \* is there a tmux: found out once in a run of the daemon
  sender,   \* who sent each message
  seen,     \* each recipient's row as the send read it
  active,   \* wakes whose recipient's last_seen_at is past sent_at
  answered, \* messages whose send has returned
  job,      \* the poke under way for each wake, or its outcome
  retries,  \* keys of retryMap; their timer is set while no poke is under way
  attempt,  \* entry.attempt of those
  status,   \* message_delivery_status
  reached,  \* history: how often the hint got to the recipient
  unheard   \* history: wakes sent to a channel while no stream was open

messageVars == <<sender, seen, answered>>
rowVars == <<row, binds, tmux, active>>
retryVars == <<retries, attempt>>
hintVars == <<reached, unheard>>
vars == <<messageVars, rowVars, job, retryVars, status, hintVars>>

Wakes == Messages \X Agents
RetryDelays == 3

Gone == [type |-> "gone", linked |-> FALSE, pane |-> FALSE]
Nobody == "nobody"
Unrecorded == [wake |-> "none", attempts |-> 0]

Outcomes == {"ok", "no_pane", "tmux_unavailable", "self", "guard_failed"}
Final == {"delivered", "skipped", "failed"}

Recipients(m) == {a \in Agents : seen[<<m, a>>] # Gone}

-----------------------------------------------------------------------------
(* One poke *)

Becomes(w, at) == job' = [job EXCEPT ![w] = at]
Reaches(w, n) == reached' = [reached EXCEPT ![w] = @ + n] /\ UNCHANGED unheard
GoesUnheard(w) == unheard' = unheard \cup {w} /\ UNCHANGED reached

\* tmuxPoke: a retry skips the guard, which it has just run itself.
Keystrokes(w) == IF ~tmux THEN "tmux_unavailable"
                 ELSE IF w \in retries THEN "type" ELSE "guard"

\* poke reads the row anew and dispatchPoke picks the transport: an agent with
\* a channel is reached over nothing else, and only while it is subscribed (with
\* no stream open the notification is dropped unnoticed); an app server is
\* called, and keystrokes are codex's fallback; any other agent has a pane or
\* nothing.
Dispatch(w) ==
  LET r == row[w[2]] IN
  \/ /\ row[sender[w[1]]] = Gone \/ r = Gone
     /\ Becomes(w, "guard_failed") /\ Reaches(w, 0)
  \/ /\ row[sender[w[1]]] # Gone /\ r # Gone
     /\ \/ r.type = "claude-code" /\ r.linked /\ Becomes(w, "ok") /\ (Reaches(w, 1) \/ GoesUnheard(w))
        \/ r.type = "claude-code" /\ Becomes(w, "no_pane") /\ Reaches(w, 0)
        \/ /\ r.type # "claude-code" /\ r.linked
           /\ Becomes(w, IF r.type = "codex" /\ r.pane THEN "link or keys" ELSE "link")
           /\ Reaches(w, 0)
        \/ /\ r.type # "claude-code" /\ ~r.linked
           /\ Becomes(w, IF r.pane THEN Keystrokes(w) ELSE "no_pane")
           /\ Reaches(w, 0)

\* fanoutAutoPoke for one recipient, by its row as the send read it.
Open(w) ==
  LET r == seen[w] IN
  /\ job[w] = "open"
  /\ \/ w[2] = sender[w[1]] /\ Becomes(w, "self") /\ Reaches(w, 0)
     \/ /\ w[2] # sender[w[1]] /\ ~r.linked
        /\ \/ ~r.pane /\ Becomes(w, "no_pane") /\ Reaches(w, 0)
           \/ r.pane /\ ~tmux /\ Becomes(w, "tmux_unavailable") /\ Reaches(w, 0)
     \/ w[2] # sender[w[1]] /\ (r.linked \/ (r.pane /\ tmux)) /\ Dispatch(w)
  /\ UNCHANGED <<messageVars, rowVars, retryVars, status>>

\* mutant: a call that failed is taken for one that was made.
LinkTakenForOk(w) ==
  /\ job[w] \in {"link", "link or keys"}
  /\ Becomes(w, "ok")
  /\ Reaches(w, 1) \/ Reaches(w, 0)
  /\ UNCHANGED <<messageVars, rowVars, retryVars, status>>

\* The app server takes the hint, or the call fails, which the server may have
\* taken all the same.
Link(w) ==
  /\ job[w] \in {"link", "link or keys"}
  /\ \/ Becomes(w, "ok") /\ Reaches(w, 1)
     \/ /\ Becomes(w, IF job[w] = "link" THEN "guard_failed" ELSE Keystrokes(w))
        /\ Reaches(w, 1) \/ Reaches(w, 0)
  /\ UNCHANGED <<messageVars, rowVars, retryVars, status>>

\* tmuxPokeImpl: guard, paste, Enter and a last capture, any of which may fail;
\* every failure comes back as guard_failed.
TmuxStep(w, from, to) == job[w] = from /\ (Becomes(w, to) \/ Becomes(w, "guard_failed"))

Guard(w) ==
  /\ TmuxStep(w, "guard", "type")
  /\ UNCHANGED <<messageVars, rowVars, retryVars, status, hintVars>>

Type(w) ==
  /\ TmuxStep(w, "type", "enter")
  /\ UNCHANGED <<messageVars, rowVars, retryVars, status, hintVars>>

Enter(w) ==
  /\ TmuxStep(w, "enter", "check")
  /\ Reaches(w, IF job'[w] = "check" THEN 1 ELSE 0)
  /\ UNCHANGED <<messageVars, rowVars, retryVars, status>>

Check(w) ==
  /\ TmuxStep(w, "check", "ok")
  /\ UNCHANGED <<messageVars, rowVars, retryVars, status, hintVars>>

-----------------------------------------------------------------------------
(* Sending *)

\* The message is written, by a sender that is there to recipients that are.
Write(m, s, T) ==
  /\ sender[m] = Nobody /\ row[s] # Gone
  /\ T # {} /\ \A a \in T : row[a] # Gone
  /\ sender' = [sender EXCEPT ![m] = s]
  /\ seen' = [w \in Wakes |-> IF w[1] = m /\ w[2] \in T THEN row[w[2]] ELSE seen[w]]

Send(m, s, T) ==
  /\ Write(m, s, T)
  /\ job' = [w \in Wakes |-> IF w[1] = m /\ w[2] \in T THEN "open" ELSE job[w]]
  /\ UNCHANGED <<answered, rowVars, retryVars, status, hintVars>>

\* With auto_poke: false.
SendQuietly(m, s, T) ==
  /\ Write(m, s, T)
  /\ status' = [w \in Wakes |-> IF w[1] = m /\ w[2] \in T
                                THEN [wake |-> "skipped", attempts |-> 0] ELSE status[w]]
  /\ answered' = answered \cup {m}
  /\ UNCHANGED <<rowVars, job, retryVars, hintVars>>

FirstStatus(outcome) ==
  IF outcome = "ok" THEN "delivered" ELSE IF outcome = "guard_failed" THEN "retrying" ELSE "skipped"

\* mutant: whoever has a pane and was not poked gets a timer.
TimerForAny(w) == job[w] # "ok" /\ seen[w].pane

\* scheduleRetry is called for those that failed their guard and have a pane.
Scheduled(w) == job[w] = "guard_failed" /\ seen[w].pane

\* runFanoutWithRetry, when the last poke is over: timers, status rows, answer.
Collect(m) ==
  LET mine == {m} \X Recipients(m) IN
  /\ mine # {} /\ mine \cap retries = {}
  /\ \A w \in mine : job[w] \in Outcomes
  /\ retries' = retries \cup {w \in mine : Scheduled(w)}
  /\ status' = [w \in Wakes |-> IF w \in mine THEN [wake |-> FirstStatus(job[w]), attempts |-> 0]
                                ELSE status[w]]
  /\ job' = [w \in Wakes |-> IF w \in mine THEN "idle" ELSE job[w]]
  /\ answered' = answered \cup {m}
  /\ UNCHANGED <<sender, seen, rowVars, attempt, hintVars>>

-----------------------------------------------------------------------------
(* Retrying: tick *)

Record(w, wake, n) == status' = [status EXCEPT ![w] = [wake |-> wake, attempts |-> n]]

\* mutant: the entry outlives its final status.
FinishKeepsEntry(w, wake, n) ==
  /\ Record(w, wake, n)
  /\ Becomes(w, "idle")
  /\ UNCHANGED <<retries, attempt>>

\* A final status is written and the entry deleted.
Finish(w, wake, n) ==
  /\ Record(w, wake, n)
  /\ Becomes(w, "idle")
  /\ retries' = retries \ {w}
  /\ attempt' = [attempt EXCEPT ![w] = 0]

\* The timer fires: the recipient has no pane any more, has been active since
\* the message, or is guarded again.
Fire(w) ==
  /\ w \in retries /\ job[w] = "idle"
  /\ \/ ~row[w[2]].pane /\ Finish(w, "failed", attempt[w])
     \/ row[w[2]].pane /\ w \in active /\ Finish(w, "skipped", attempt[w])
     \/ row[w[2]].pane /\ w \notin active /\ Becomes(w, "quiet") /\ UNCHANGED <<retryVars, status>>
  /\ UNCHANGED <<messageVars, rowVars, hintVars>>

\* mutant: the attempts are counted but not limited.
GuardFailsUncounted(w) ==
  /\ job[w] = "quiet"
  /\ attempt' = [attempt EXCEPT ![w] = @ + 1]
  /\ Record(w, "retrying", attempt[w] + 1)
  /\ Becomes(w, "idle")
  /\ UNCHANGED <<messageVars, rowVars, retries, hintVars>>

\* mutant: the last attempt is followed by another timer.
GuardFailsForEver(w) ==
  /\ job[w] = "quiet"
  /\ attempt' = [attempt EXCEPT ![w] = IF @ + 1 = RetryDelays THEN @ ELSE @ + 1]
  /\ Record(w, "retrying", attempt'[w])
  /\ Becomes(w, "idle")
  /\ UNCHANGED <<messageVars, rowVars, retries, hintVars>>

\* The pane is in use: the next timer is set, or the attempts are exhausted.
GuardFails(w) ==
  /\ job[w] = "quiet"
  /\ IF attempt[w] + 1 >= RetryDelays THEN Finish(w, "failed", attempt[w] + 1)
     ELSE /\ attempt' = [attempt EXCEPT ![w] = @ + 1]
          /\ Record(w, "retrying", attempt[w] + 1)
          /\ Becomes(w, "idle")
          /\ retries' = retries
  /\ UNCHANGED <<messageVars, rowVars, hintVars>>

\* The pane cannot be read: an exception, and the end of it.
GuardThrows(w) ==
  /\ job[w] = "quiet"
  /\ Finish(w, "failed", attempt[w])
  /\ UNCHANGED <<messageVars, rowVars, hintVars>>

\* The pane is quiet, so pokeFn is called.
GuardPasses(w) ==
  /\ job[w] = "quiet"
  /\ Dispatch(w)
  /\ UNCHANGED <<messageVars, rowVars, retryVars, status>>

\* The poke is over, however it went: pokeFn drops its result.
Poked(w) ==
  /\ w \in retries /\ job[w] \in Outcomes
  /\ Finish(w, "delivered", attempt[w] + 1)
  /\ UNCHANGED <<messageVars, rowVars, hintVars>>

-----------------------------------------------------------------------------
(* Around it *)

\* A heartbeat or any call of the agent refreshes last_seen_at.
Touch(a) ==
  /\ row[a] # Gone
  /\ active' = active \cup {w \in Wakes : w[2] = a /\ seen[w] # Gone}
  /\ UNCHANGED <<messageVars, row, binds, tmux, job, retryVars, status, hintVars>>

\* The agent registers or binds anew, which refreshes last_seen_at too.
Bind(a, r) ==
  /\ row[a] # Gone /\ row[a] # r /\ binds < MaxBinds
  /\ row' = [row EXCEPT ![a] = r]
  /\ binds' = binds + 1
  /\ active' = active \cup {w \in Wakes : w[2] = a /\ seen[w] # Gone}
  /\ UNCHANGED <<messageVars, tmux, job, retryVars, status, hintVars>>

\* Its row is deleted.
Leave(a) ==
  /\ row[a] # Gone /\ binds < MaxBinds
  /\ row' = [row EXCEPT ![a] = Gone]
  /\ binds' = binds + 1
  /\ UNCHANGED <<messageVars, tmux, active, job, retryVars, status, hintVars>>

\* The daemon stops, whatever it is doing, and starts again: pokes under way,
\* their requests and all timers are gone.
Restart ==
  /\ job' = [w \in Wakes |-> "idle"]
  /\ retries' = {}
  /\ attempt' = [w \in Wakes |-> 0]
  /\ tmux' \in BOOLEAN
  /\ UNCHANGED <<messageVars, row, binds, active, status, hintVars>>

Init ==
  /\ row \in [Agents -> Rows]
  /\ binds = 0
  /\ tmux \in BOOLEAN
  /\ sender = [m \in Messages |-> Nobody]
  /\ seen = [w \in Wakes |-> Gone]
  /\ active = {} /\ answered = {}
  /\ job = [w \in Wakes |-> "idle"]
  /\ retries = {}
  /\ attempt = [w \in Wakes |-> 0]
  /\ status = [w \in Wakes |-> Unrecorded]
  /\ reached = [w \in Wakes |-> 0] /\ unheard = {}

Step(w) ==
  \/ Open(w) \/ Link(w) \/ Guard(w) \/ Type(w) \/ Enter(w) \/ Check(w)
  \/ Fire(w) \/ GuardFails(w) \/ GuardThrows(w) \/ GuardPasses(w) \/ Poked(w)

Next ==
  \/ \E m \in Messages, s \in Agents, T \in SUBSET Agents : Send(m, s, T) \/ SendQuietly(m, s, T)
  \/ \E w \in Wakes : Step(w)
  \/ \E m \in Messages : Collect(m)
  \/ \E a \in Agents : Touch(a) \/ Leave(a) \/ \E r \in Rows : Bind(a, r)
  \/ Restart

\* Timers fire, the guard's captures time out, and what follows an await runs.
\* Nothing bounds a call to an app server or a tmux paste or Enter.
Fairness ==
  /\ \A w \in Wakes :
       /\ WF_vars(Fire(w)) /\ WF_vars(Check(w)) /\ WF_vars(Poked(w))
       /\ WF_vars(GuardFails(w) \/ GuardThrows(w) \/ GuardPasses(w))

Spec == Init /\ [][Next]_vars /\ Fairness

-----------------------------------------------------------------------------
(* Properties *)

Steps == {"idle", "open", "guard", "link", "link or keys", "type", "enter", "check", "quiet"}

\* State is well formed: no hint is sent more often than two pokes can, over a
\* call and keystrokes each.
TypeOK ==
  /\ row \in [Agents -> Rows \cup {Gone}]
  /\ binds \in 0 .. MaxBinds /\ tmux \in BOOLEAN
  /\ sender \in [Messages -> Agents \cup {Nobody}]
  /\ seen \in [Wakes -> Rows \cup {Gone}]
  /\ active \subseteq Wakes /\ answered \subseteq Messages
  /\ job \in [Wakes -> Steps \cup Outcomes]
  /\ retries \subseteq Wakes
  /\ attempt \in [Wakes -> 0 .. RetryDelays - 1]
  /\ status \in [Wakes -> [wake : {"none", "delivered", "retrying", "skipped", "failed"},
                           attempts : 0 .. RetryDelays]]
  /\ reached \in [Wakes -> 0 .. 4] /\ unheard \subseteq Wakes

\* The timers in memory and the table agree: whoever has a timer, or a retry
\* under way, is listed as retrying, after as many attempts.
TimersAreListed ==
  \A w \in retries : status[w] = [wake |-> "retrying", attempts |-> attempt[w]]

\* "Stops early on poked" (tools.ts): once a wake is listed as delivered,
\* skipped or failed, its status stays and no further hint reaches the agent,
\* though timers, polls and rebinding go on.
FinalIsFinal ==
  [][\A w \in Wakes : status[w].wake \in Final =>
       status'[w] = status[w] /\ reached'[w] = reached[w]]_vars

\* A recipient that the send itself lists as delivered got the hint, but for a
\* channel notification that nobody was listening for.
DeliveredAtOnceReached ==
  \A w \in Wakes :
    status[w].wake = "delivered" /\ status[w].attempts = 0 => reached[w] > 0 \/ w \in unheard

\* The guard and timers never keep a wake pending: every scheduled retry ends,
\* but for a call to the agent's app server or pane that does not return.
Calling(w) == job[w] \in {"link", "link or keys", "type", "enter"}

RetriesEnd == \A w \in Wakes : w \in retries ~> w \notin retries \/ Calling(w)

=============================================================================
