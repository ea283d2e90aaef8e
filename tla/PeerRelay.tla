------------------------------ MODULE PeerRelay ------------------------------
(***************************************************************************)
(* Message federation between two paired instances (lib/peer-federation):  *)
(* the origin's forwardOutbox polls the mailboxes of the local shadows of  *)
(* the peer's agents and posts each message to the peer, whose             *)
(* deliverMessage hands it to its own daemon.  The origin keeps a cursor   *)
(* per shadow, the destination a ledger of delivered ids; both are written *)
(* to disk at once.  Every await is a step boundary: rosters and inboxes   *)
(* are used after they were read, requests and replies get lost or arrive  *)
(* after the caller's timeout, and either runtime may die in between.      *)
(*                                                                         *)
(* A message is the event it has at the origin; its id at the destination  *)
(* is that event's.  The shadows exist throughout (module PeerShadows      *)
(* models how they come and go).                                           *)
(***************************************************************************)
EXTENDS Naturals, Sequences

CONSTANTS
  Senders,     \* agents of the origin, by agent_id
  Targets,     \* agents of the destination, each with its shadow at the origin
  MaxMail,     \* bound: messages written to shadows
  MaxAttempts  \* bound: deliver requests ever posted

ASSUME BoundsAssumption == MaxMail \in Nat /\ MaxAttempts \in Nat

VARIABLES
  outbox,     \* origin daemon: the messages written to shadows, by event id
  status,     \* origin daemon: is the sender's row "new", "here" or "gone"
  cursor,     \* origin ledger: last event handled for each shadow
  trusted,    \* origin trust store: is the peer in it
  pc,         \* where forwardOutbox is
  roster,     \* its localById: the senders it saw registered
  pending,    \* shadows whose inbox it has yet to read
  batch,      \* events left of the inbox it read
  attempts,   \* deliver requests: their event and how far each has come
  present,    \* destination daemon: the targets that are registered
  known,      \* destination runtime: senders in its remoteAgents
  delivered,  \* destination daemon: events inserted, in order
  ledger,     \* destination ledger: ids marked delivered
  dropped     \* history: events given up for want of a sender

originVars == <<outbox, status, cursor, trusted>>
forwardVars == <<pc, roster, pending, batch>>
destinationVars == <<present, known, delivered, ledger>>
vars == <<originVars, forwardVars, attempts, destinationVars, dropped>>

Events == 1 .. Len(outbox)
Here == {s \in Senders : status[s] = "here"}

-----------------------------------------------------------------------------
(* The agents on both sides *)

\* A row is inserted or deleted in the origin's agents table; an agent_id that
\* is gone never returns.
SenderArrives(s) ==
  /\ status[s] = "new"
  /\ status' = [status EXCEPT ![s] = "here"]
  /\ UNCHANGED <<outbox, cursor, trusted, forwardVars, attempts, destinationVars, dropped>>

SenderLeaves(s) ==
  /\ status[s] = "here"
  /\ status' = [status EXCEPT ![s] = "gone"]
  /\ UNCHANGED <<outbox, cursor, trusted, forwardVars, attempts, destinationVars, dropped>>

\* send_message to the shadow of t.
Write(s, t) ==
  /\ status[s] = "here"
  /\ Len(outbox) < MaxMail
  /\ outbox' = Append(outbox, [from |-> s, to |-> t])
  /\ UNCHANGED <<status, cursor, trusted, forwardVars, attempts, destinationVars, dropped>>

\* A target's row is deleted; if its agent returns, it has another agent_id.
TargetLeaves(t) ==
  /\ t \in present
  /\ present' = present \ {t}
  /\ UNCHANGED <<originVars, forwardVars, attempts, known, delivered, ledger, dropped>>

\* The destination's own refreshPeer reads the origin's roster.
LearnSenders ==
  /\ known' = Here
  /\ UNCHANGED <<originVars, forwardVars, attempts, present, delivered, ledger, dropped>>

\* revoke, and pairing again.
Revoke ==
  /\ trusted
  /\ trusted' = FALSE
  /\ UNCHANGED <<outbox, status, cursor, forwardVars, attempts, destinationVars, dropped>>

Pair ==
  /\ ~trusted
  /\ trusted' = TRUE
  /\ UNCHANGED <<outbox, status, cursor, forwardVars, attempts, destinationVars, dropped>>

-----------------------------------------------------------------------------
(* The origin: forwardOutbox *)

Idle == pc' = "idle" /\ roster' = {} /\ pending' = {} /\ batch' = {}

\* forwardOutbox is entered and asks the daemon for its agents.
Start ==
  /\ pc = "idle" /\ trusted
  /\ pc' = "roster"
  /\ UNCHANGED <<originVars, roster, pending, batch, attempts, destinationVars, dropped>>

ReadRoster ==
  /\ pc = "roster"
  /\ pc' = "inbox"
  /\ roster' = Here
  /\ pending' = Targets
  /\ UNCHANGED <<originVars, batch, attempts, destinationVars, dropped>>

\* The unhandled events of t's shadow.
Inbox(t) == {e \in Events : outbox[e].to = t /\ e > cursor[t]}

\* GET /api/inbox?since_event_id=<cursor>: a read that moves no cursor, of one
\* page, cut by LIMIT or at the end.
ReadInbox(t) ==
  /\ pc = "inbox" /\ batch = {} /\ t \in pending
  /\ IF Inbox(t) = {} THEN batch' = {}
     ELSE \E c \in Inbox(t) : batch' = {e \in Inbox(t) : e <= c}
  /\ pending' = pending \ {t}
  /\ UNCHANGED <<originVars, pc, roster, attempts, destinationVars, dropped>>

\* mutant: the newest message is handled first.
Last(e) == e \in batch /\ \A f \in batch : f <= e

\* The messages come ordered by event_id.
First(e) == e \in batch /\ \A f \in batch : e <= f

Source(e) == outbox[e].from

\* setCursor for the message being handled.
Advance(e) ==
  /\ cursor' = [cursor EXCEPT ![outbox[e].to] = e]
  /\ batch' = batch \ {e}

\* The sender is not in the roster read earlier: the message is given up.
Drop(e) ==
  /\ pc = "inbox" /\ First(e) /\ Source(e) \notin roster
  /\ Advance(e)
  /\ dropped' = dropped \cup {e}
  /\ UNCHANGED <<outbox, status, trusted, pc, roster, pending, attempts, destinationVars>>

\* POST /messages/deliver, if the peer is still trusted at this point.
Post(e) ==
  /\ pc = "inbox" /\ First(e) /\ Source(e) \in roster
  /\ trusted
  /\ Len(attempts) < MaxAttempts
  /\ attempts' = Append(attempts, [event |-> e, at |-> "wire"])
  /\ pc' = "wait"
  /\ UNCHANGED <<originVars, roster, pending, batch, destinationVars, dropped>>

\* The request now awaited.
Current == attempts[Len(attempts)]

\* mutant: any answer moves the cursor on.
AckedAnyReply ==
  /\ pc = "wait" /\ Current.at \in {"ok", "error"}
  /\ Advance(Current.event)
  /\ pc' = "inbox"
  /\ UNCHANGED <<outbox, status, trusted, roster, pending, attempts, destinationVars, dropped>>

Acked ==
  /\ pc = "wait" /\ Current.at = "ok"
  /\ Advance(Current.event)
  /\ pc' = "inbox"
  /\ UNCHANGED <<outbox, status, trusted, roster, pending, attempts, destinationVars, dropped>>

\* forwardOutbox ends: nothing left, trust revoked, a refusal, a timeout, an
\* unreachable daemon or peer; or the runtime dies.  The cursors are on disk.
End ==
  /\ pc # "idle"
  /\ Idle
  /\ UNCHANGED <<originVars, attempts, destinationVars, dropped>>

-----------------------------------------------------------------------------
(* The destination: deliverMessage, one handler for each request *)

Move(n, from, to) ==
  /\ attempts[n].at = from
  /\ attempts' = [attempts EXCEPT ![n].at = to]

\* Authenticated; then the ledger and the sender are looked up.
Arrive(n) ==
  /\ Move(n, "wire", IF attempts[n].event \in ledger THEN "ok"
                     ELSE IF outbox[attempts[n].event].from \in known THEN "check"
                     ELSE "error")
  /\ UNCHANGED <<originVars, forwardVars, destinationVars, dropped>>

\* The daemon's roster comes back: is the recipient in it?
Check(n) ==
  /\ Move(n, "check", IF outbox[attempts[n].event].to \in present THEN "insert" ELSE "error")
  /\ UNCHANGED <<originVars, forwardVars, destinationVars, dropped>>

\* The daemon handles POST /api/send, perhaps after its caller gave up.
Insert(n) ==
  /\ Move(n, "insert", "mark") \/ Move(n, "late", "error")
  /\ delivered' = Append(delivered, attempts[n].event)
  /\ UNCHANGED <<originVars, forwardVars, present, known, ledger, dropped>>

\* The daemon's answer comes back: markDelivered, and the reply.
Mark(n) ==
  /\ Move(n, "mark", "ok")
  /\ ledger' = ledger \cup {attempts[n].event}
  /\ UNCHANGED <<originVars, forwardVars, present, known, delivered, dropped>>

\* What a handler that ends early leaves behind: a request that waits at the
\* daemon may still be handled.
Abandoned(at) == IF at = "insert" THEN "late" ELSE "error"

\* The daemon refuses (unreachable recipient, unknown shadow), is down, or does
\* not answer within LOCAL_REQUEST_TIMEOUT_MS although it has inserted or will.
Fail(n) ==
  /\ \E at \in {"wire", "check", "insert", "mark"} : Move(n, at, Abandoned(at))
  /\ UNCHANGED <<originVars, forwardVars, destinationVars, dropped>>

\* The destination's runtime dies with its handlers; ledger and daemon stay.
Crash ==
  /\ attempts' = [n \in DOMAIN attempts |->
                    IF attempts[n].at \in {"check", "insert", "mark"}
                    THEN [attempts[n] EXCEPT !.at = Abandoned(@)] ELSE attempts[n]]
  /\ known' = {}
  /\ UNCHANGED <<originVars, forwardVars, present, delivered, ledger, dropped>>

-----------------------------------------------------------------------------
Init ==
  /\ outbox = <<>>
  /\ status = [s \in Senders |-> "new"]
  /\ cursor = [t \in Targets |-> 0]
  /\ trusted = TRUE
  /\ pc = "idle" /\ roster = {} /\ pending = {} /\ batch = {}
  /\ attempts = <<>>
  /\ present = Targets
  /\ known = {}
  /\ delivered = <<>>
  /\ ledger = {}
  /\ dropped = {}

Forward ==
  \/ Start \/ ReadRoster \/ Acked
  \/ \E t \in Targets : ReadInbox(t)
  \/ \E e \in batch : Drop(e) \/ Post(e)

Handle(n) == Arrive(n) \/ Check(n) \/ Insert(n) \/ Mark(n) \/ Fail(n)

Next ==
  \/ \E s \in Senders : SenderArrives(s) \/ SenderLeaves(s)
  \/ \E s \in Senders, t \in Targets : Write(s, t)
  \/ \E t \in Targets : TargetLeaves(t)
  \/ LearnSenders
  \/ Revoke \/ Pair
  \/ Forward
  \/ End
  \/ \E n \in DOMAIN attempts : Handle(n)
  \/ Crash

Spec == Init /\ [][Next]_vars

-----------------------------------------------------------------------------
(* Properties *)

Letter == [from : Senders, to : Targets]
Attempt == [event : Nat, at : {"wire", "check", "insert", "late", "mark", "ok", "error"}]

Inserted(e) == \E i \in DOMAIN delivered : delivered[i] = e
GivenUp(e) == e \in dropped

\* State is well formed.
TypeOK ==
  /\ outbox \in Seq(Letter)
  /\ status \in [Senders -> {"new", "here", "gone"}]
  /\ cursor \in [Targets -> 0 .. Len(outbox)]
  /\ trusted \in BOOLEAN
  /\ pc \in {"idle", "roster", "inbox", "wait"}
  /\ roster \subseteq Senders /\ pending \subseteq Targets
  /\ batch \subseteq Events
  /\ pc = "wait" => attempts # <<>> /\ Current.event \in batch
  /\ attempts \in Seq(Attempt) /\ \A n \in DOMAIN attempts : attempts[n].event \in Events
  /\ present \subseteq Targets /\ known \subseteq Senders
  /\ delivered \in Seq(Events) /\ ledger \subseteq Events
  /\ dropped \subseteq Events

\* The origin's cursor never passes a message that the destination's daemon has
\* not inserted, unless its sender could not be found: a lost request, a lost
\* or late reply, a refusal, a crash of either runtime and a ledger hit skip
\* nothing.
NothingSkipped ==
  \A e \in Events : e <= cursor[outbox[e].to] => Inserted(e) \/ GivenUp(e)

\* The ledger lists only messages the destination's daemon has: a duplicate is
\* never acknowledged for a message that was not inserted.
LedgerIsHonest == \A e \in ledger : Inserted(e)

\* Two messages to one agent arrive in the order they were written: the first
\* copy of the later one comes after the first copy of the earlier one.
InOrder ==
  \A j \in DOMAIN delivered, e \in Events :
    e < delivered[j] /\ outbox[e].to = outbox[delivered[j]].to =>
      GivenUp(e) \/ \E i \in 1 .. j : delivered[i] = e

\* "Stops routing immediately on revocation" (docs/stage1-networking.md): no
\* request leaves after the peer was revoked, though the loop that sends them
\* may have been entered, and its rosters and inboxes read, before.
RevocationStopsRouting == [][Len(attempts') > Len(attempts) => trusted]_vars

=============================================================================
