------------------------------ MODULE Notices ------------------------------
(***************************************************************************)
(* Notices of new mail in Claude Code (assets/claude/mod/hooks/register.js *)
(* with the cursor file of assets/claude/xats-hook.mjs).                   *)
(*                                                                         *)
(* The mod polls the inbox of its agent without consuming it, keeps what   *)
(* is new as pending notices, and hands them to Claude as one prompt after *)
(* a debounce.  What Claude accepted is remembered in a file, so that a    *)
(* reload of the mod does not repeat it.  Meanwhile the agent may read its *)
(* mail with get_inbox, the person may dismiss the notices, a busy turn    *)
(* may refuse the prompt, and every request may fail.                      *)
(*                                                                         *)
(* poll and deliver are asynchronous and run side by side: each stage of   *)
(* theirs below ends at an await.  Delays are not modelled.                *)
(***************************************************************************)
EXTENDS Naturals, Sequences

CONSTANTS
  MaxMessages, \* bound: messages written to the agent
  MaxFaults    \* bound: reloads, refused prompts, failed requests and writes, replaced rows

ASSUME BoundsAssumption == {MaxMessages, MaxFaults} \subseteq Nat

VARIABLES
  mail,            \* the agent_id each event_id was written to
  row,             \* agent_id of the session's row
  read,            \* its last_processed_event_id
  agentId,         \* what the mod took the agent_id to be; 0 before that
  lastEventId,     \* fetched up to here
  acceptedEventId, \* accepted by Claude up to here
  cursorLoaded,    \* was the cursor file looked at?
  pending,         \* notices to hand over
  polling,         \* stage of poll
  delivering,      \* stage of deliver
  batch,           \* notices in the prompt under way
  scheduled,       \* is a delivery scheduled?
  asked,           \* what `read` was when each of the two asked for it
  file,            \* the cursor file
  faults, reloads, \* how many so far
  noticed,         \* history: how often Claude was told of each message
  dismissed        \* history: notices dismissed

daemonVars == <<mail, row, read>>
cursorVars == <<agentId, lastEventId, acceptedEventId, cursorLoaded>>
deliverVars == <<delivering, batch>>
historyVars == <<noticed, dismissed>>
vars == <<daemonVars, cursorVars, pending, polling, deliverVars, scheduled, asked, file, faults,
          reloads, historyVars>>

Events == 1..MaxMessages
Written == 1..Len(mail)
Top(S, n) == CHOOSE m \in S \cup {n} : \A k \in S \cup {n} : k <= m
Fault == faults < MaxFaults /\ faults' = faults + 1

-----------------------------------------------------------------------------
(* The mailbox *)

\* A message is written to the agent.
Write ==
  /\ Len(mail) < MaxMessages
  /\ mail' = Append(mail, row)
  /\ UNCHANGED <<row, read, cursorVars, pending, polling, deliverVars, scheduled, asked, file, faults,
                 reloads, historyVars>>

\* The agent reads its mail.
GetInbox ==
  /\ read < Len(mail) /\ read' = Len(mail)
  /\ UNCHANGED <<mail, row, cursorVars, pending, polling, deliverVars, scheduled, asked, file, faults,
                 reloads, historyVars>>

\* The row is removed and the session registered anew: another agent_id, whose
\* mailbox starts at the newest event.
ReplaceRow ==
  /\ Fault
  /\ row' = row + 1 /\ read' = Len(mail)
  /\ UNCHANGED <<mail, cursorVars, pending, polling, deliverVars, scheduled, asked, file, reloads,
                 historyVars>>

-----------------------------------------------------------------------------
(* Polling *)

\* scheduleDelivery, at the end of every poll.
Schedules == scheduled' = (scheduled \/ (pending' # {} /\ delivering = "idle"))

\* resolveIdentity and loadAcceptedCursor: both remember their result for good.
PollStarts ==
  /\ polling = "idle" /\ polling' = "inbox"
  /\ agentId' = IF agentId = 0 THEN row ELSE agentId
  /\ cursorLoaded' = TRUE
  /\ IF ~cursorLoaded /\ file.agent = agentId'
     THEN acceptedEventId' = file.event /\ lastEventId' = Top({file.event}, lastEventId)
     ELSE UNCHANGED <<acceptedEventId, lastEventId>>
  /\ UNCHANGED <<daemonVars, pending, deliverVars, scheduled, asked, file, faults, reloads, historyVars>>

\* /api/inbox answers by name, so for the row there is now.
PollInbox ==
  LET new == {e \in Written : mail[e] = row /\ e > lastEventId}
  IN /\ polling = "inbox" /\ polling' = "cursor"
     /\ pending' = pending \cup new
     /\ lastEventId' = Top(new, lastEventId)
     /\ asked' = [asked EXCEPT !.poll = read]
     /\ UNCHANGED <<daemonVars, agentId, acceptedEventId, cursorLoaded, deliverVars, scheduled, file,
                    faults, reloads, historyVars>>

\* readMailboxCursor, by agent_id: the answer may be older than it is now, and
\* there is none for a row that is gone, or if the lookup fails.
Unread(since) ==
  \/ /\ agentId = row
     /\ \E cursor \in since..read : pending' = {e \in pending : e > cursor}
     /\ UNCHANGED faults
  \/ /\ agentId = row => Fault
     /\ agentId # row => UNCHANGED faults
     /\ UNCHANGED pending

PollCursor ==
  /\ polling = "cursor" /\ polling' = "idle"
  /\ Unread(asked.poll)
  /\ Schedules
  /\ UNCHANGED <<daemonVars, cursorVars, deliverVars, asked, file, reloads, historyVars>>

PollFails ==
  /\ polling = "inbox" /\ polling' = "idle"
  /\ Fault
  /\ UNCHANGED pending /\ Schedules
  /\ UNCHANGED <<daemonVars, cursorVars, deliverVars, asked, file, reloads, historyVars>>

-----------------------------------------------------------------------------
(* Delivery *)

\* The timer of scheduleDelivery; deliver starts with the mailbox cursor.
Due ==
  /\ scheduled /\ scheduled' = FALSE
  /\ IF pending = {} \/ delivering # "idle" THEN UNCHANGED <<delivering, asked>>
     ELSE delivering' = "check" /\ asked' = [asked EXCEPT !.deliver = read]
  /\ UNCHANGED <<daemonVars, cursorVars, pending, polling, batch, file, faults, reloads, historyVars>>

Checked ==
  /\ delivering = "check"
  /\ \E left \in SUBSET pending :
       /\ \/ /\ agentId = row /\ UNCHANGED faults
             /\ \E cursor \in asked.deliver..read : left = {e \in pending : e > cursor}
          \/ /\ agentId = row => Fault
             /\ agentId # row => UNCHANGED faults
             /\ left = pending
       /\ batch' = left
       /\ delivering' = IF left = {} THEN "idle" ELSE "submit"
  /\ pending' = {}
  /\ UNCHANGED <<daemonVars, cursorVars, polling, scheduled, asked, file, reloads, historyVars>>

\* Claude takes the prompt.
Accepted ==
  /\ delivering = "submit" /\ delivering' = "persist"
  /\ noticed' = [e \in Events |-> IF e \in batch THEN noticed[e] + 1 ELSE noticed[e]]
  /\ acceptedEventId' = Top(batch, acceptedEventId)
  /\ UNCHANGED <<daemonVars, agentId, lastEventId, cursorLoaded, pending, polling, batch, scheduled,
                 asked, file, faults, reloads, dismissed>>

\* mutant: a refused batch is dropped
RefusedDropped ==
  /\ delivering = "submit" /\ delivering' = "idle"
  /\ Fault
  /\ batch' = {}
  /\ UNCHANGED <<daemonVars, cursorVars, pending, polling, scheduled, asked, file, reloads, historyVars>>

\* A busy turn refuses it; the next poll schedules it again.
Refused ==
  /\ delivering = "submit" /\ delivering' = "idle"
  /\ Fault
  /\ pending' = pending \cup batch /\ batch' = {}
  /\ UNCHANGED <<daemonVars, cursorVars, polling, scheduled, asked, file, reloads, historyVars>>

\* mutant: what was fetched is saved, not what was accepted
PersistedFetched ==
  /\ delivering = "persist" /\ delivering' = "idle"
  /\ batch' = {}
  /\ file' = [agent |-> agentId, event |-> lastEventId]
  /\ UNCHANGED <<daemonVars, cursorVars, pending, polling, scheduled, asked, faults, reloads, historyVars>>

\* mutant: a failed write puts the batch back
PersistedOrRequeued ==
  /\ delivering = "persist" /\ delivering' = "idle"
  /\ batch' = {}
  /\ \/ file' = [agent |-> agentId, event |-> acceptedEventId] /\ UNCHANGED <<faults, pending>>
     \/ Fault /\ pending' = pending \cup batch /\ UNCHANGED file
  /\ UNCHANGED <<daemonVars, cursorVars, polling, scheduled, asked, reloads, historyVars>>

\* persistAcceptedCursor; the batch is done with also if the write fails.
Persisted ==
  /\ delivering = "persist" /\ delivering' = "idle"
  /\ batch' = {}
  /\ \/ file' = [agent |-> agentId, event |-> acceptedEventId] /\ UNCHANGED faults
     \/ Fault /\ UNCHANGED file
  /\ UNCHANGED <<daemonVars, cursorVars, pending, polling, scheduled, asked, reloads, historyVars>>

\* The button of the pane.  Notices in a prompt under way are not dismissed.
Dismiss ==
  /\ pending # {} /\ pending' = {}
  /\ dismissed' = dismissed \cup pending
  /\ UNCHANGED <<daemonVars, cursorVars, polling, deliverVars, scheduled, asked, file, faults, reloads,
                 noticed>>

\* The mod is loaded anew; Claude may yet take the prompt that was under way.
Reload ==
  /\ Fault /\ reloads' = reloads + 1
  /\ agentId' = 0 /\ lastEventId' = 0 /\ acceptedEventId' = 0 /\ cursorLoaded' = FALSE
  /\ pending' = {} /\ polling' = "idle" /\ delivering' = "idle" /\ batch' = {} /\ scheduled' = FALSE
  /\ \/ UNCHANGED noticed
     \/ /\ delivering = "submit"
        /\ noticed' = [e \in Events |-> IF e \in batch THEN noticed[e] + 1 ELSE noticed[e]]
  /\ UNCHANGED <<daemonVars, asked, file, dismissed>>

-----------------------------------------------------------------------------
Init ==
  /\ mail = <<>> /\ row = 1 /\ read = 0
  /\ agentId = 0 /\ lastEventId = 0 /\ acceptedEventId = 0 /\ cursorLoaded = FALSE
  /\ pending = {} /\ polling = "idle" /\ delivering = "idle" /\ batch = {} /\ scheduled = FALSE
  /\ asked = [poll |-> 0, deliver |-> 0]
  /\ file = [agent |-> 1, event |-> 0]  \* ensurePrivateCursorFile
  /\ faults = 0 /\ reloads = 0
  /\ noticed = [e \in Events |-> 0] /\ dismissed = {}

Poll == PollStarts \/ PollInbox \/ PollCursor \/ PollFails
Deliver == Checked \/ Accepted \/ Refused \/ Persisted

Next ==
  \/ Write \/ GetInbox \/ ReplaceRow
  \/ Poll \/ Due \/ Deliver
  \/ Dismiss \/ Reload

\* The clock runs, and requests and prompts are answered one way or the other.
Fairness == WF_vars(Poll) /\ WF_vars(Due) /\ WF_vars(Deliver)

Spec == Init /\ [][Next]_vars /\ Fairness

-----------------------------------------------------------------------------
(* Properties *)

\* Types; what Claude accepted was fetched.
TypeOK ==
  /\ Len(mail) <= MaxMessages /\ \A e \in Written : mail[e] \in 1..row
  /\ row \in 1..(MaxFaults + 1) /\ read \in 0..Len(mail)
  /\ agentId \in 0..row
  /\ lastEventId \in 0..Len(mail) /\ acceptedEventId \in 0..lastEventId
  /\ {cursorLoaded, scheduled} \subseteq BOOLEAN
  /\ pending \subseteq 1..lastEventId /\ batch \subseteq 1..lastEventId
  /\ polling \in {"idle", "inbox", "cursor"}
  /\ delivering \in {"idle", "check", "submit", "persist"}
  /\ file \in [agent : 1..row, event : 0..Len(mail)]

\* "Missing/torn cursor means replay, never skip" (loadAcceptedCursor): of a
\* message to the agent the mod told Claude, or will; unless the agent has read
\* it or the person has dismissed the notice.  Also across reloads, with the
\* cursor that was saved and the agent_id it was saved for.
Handled(e) ==
  \/ e > lastEventId \/ e \in pending \/ e \in batch
  \/ noticed[e] > 0 \/ e \in dismissed
  \/ e <= read

NoNoticeLost == \A e \in Written : mail[e] = row => Handled(e)

\* Claude is told twice of a message only after a reload: not when its prompt
\* is refused, nor when the cursor file cannot be written.
NoticedAgainOnlyByReload == \A e \in Events : noticed[e] <= 1 + reloads

\* "A failed submit must get another chance even when the server returns no new
\* mail" (poll): a pending notice is submitted in the end, or there is no need.
NoticeIsSubmitted ==
  \A e \in Events :
    e \in pending ~> (noticed[e] > 0 \/ e \in dismissed \/ e <= read \/ agentId = 0)
=============================================================================
