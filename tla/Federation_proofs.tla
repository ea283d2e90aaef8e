------------------------- MODULE Federation_proofs -------------------------
(***************************************************************************)
(* Theorems about federation: the message relay of module PeerRelay, for   *)
(* any agents on either side and any number of messages and requests, and  *)
(* the shadows of module PeerShadows, for any agents of the peer.          *)
(*                                                                         *)
(* NothingSkipped, LedgerIsHonest and InOrder need each other and four     *)
(* more facts: a handler past its insertion has something to show for it,  *)
(* the batch being worked off is exactly what follows the cursor, the      *)
(* request awaited is for the first of it, and no request was ever posted  *)
(* before all earlier messages to its recipient were settled.              *)
(*                                                                         *)
(* SettledIsNotReaped rests on how old a row can be at each moment of a    *)
(* pass: one tick may pass between the daemon's answer and its arrival,    *)
(* one until the pass ends and one until the next pass sends a heartbeat.  *)
(***************************************************************************)
EXTENDS PeerRelay, PeerShadows, SequenceTheorems, TLAPS

\* What became of a message: it is there, or was given up.
Settled(e) == Inserted(e) \/ GivenUp(e)

HandlersAreHonest ==
  \A n \in DOMAIN attempts :
    attempts[n].at \in {"mark", "ok"} => Inserted(attempts[n].event)

BatchFollowsCursor ==
  \A e \in batch :
    /\ cursor[outbox[e].to] < e
    /\ \A f \in Events :
         f < e /\ outbox[f].to = outbox[e].to /\ f \notin batch => f <= cursor[outbox[f].to]

AwaitedIsFirst == pc = "wait" => First(Current.event)

PostedInTurn ==
  \A n \in DOMAIN attempts : \A e \in Events :
    e < attempts[n].event /\ outbox[e].to = outbox[attempts[n].event].to => Settled(e)

RelayInv ==
  /\ TypeOK
  /\ NothingSkipped
  /\ LedgerIsHonest
  /\ InOrder
  /\ HandlersAreHonest
  /\ BatchFollowsCursor
  /\ AwaitedIsFirst
  /\ PostedInTurn

-----------------------------------------------------------------------------
(* Steps, by what they touch *)

\* The history and the positions in it; the requests and what they carry.
UnchangedMail == UNCHANGED <<outbox, cursor, delivered, ledger, dropped>>

SameRequests ==
  /\ DOMAIN attempts' = DOMAIN attempts
  /\ \A n \in DOMAIN attempts : attempts'[n].event = attempts[n].event

\* A step after which nothing is awaited that was not awaited before: the batch
\* is what it was, or empty.
Quiet ==
  /\ UnchangedMail
  /\ UNCHANGED attempts
  /\ \/ UNCHANGED <<pc, batch>>
     \/ pc' # "wait" /\ batch' \in {batch, {}}

\* A handler moves on, without inserting.
HandlerMoves ==
  /\ UNCHANGED <<outbox, cursor, delivered, dropped, pc, batch>>
  /\ SameRequests
  /\ attempts' \in Seq(Attempt)
  /\ ledger' \subseteq Events
  /\ \A n \in DOMAIN attempts :
       attempts'[n].at \in {"mark", "ok"} =>
         attempts[n].at \in {"mark", "ok"} \/ attempts[n].event \in ledger
  /\ \A e \in ledger' :
       e \in ledger \/ \E n \in DOMAIN attempts : attempts[n].at = "mark" /\ attempts[n].event = e

\* Handlers that do not insert, and the death of them all.
LEMMA HandlersMove ==
  ASSUME TypeOK,
         \/ Crash
         \/ \E n \in DOMAIN attempts : Arrive(n) \/ Check(n) \/ Mark(n) \/ Fail(n)
  PROVE  HandlerMoves
<1>1. ASSUME NEW n \in DOMAIN attempts, Arrive(n) \/ Check(n) \/ Mark(n) \/ Fail(n)
      PROVE  HandlerMoves
  <2>1. attempts \in Seq(Attempt) /\ attempts[n] \in Attempt /\ attempts[n].event \in Events
        /\ ledger \subseteq Events
    BY <1>1 DEF TypeOK
  <2>2. PICK from \in {"wire", "check", "insert", "mark"},
             to \in {"check", "insert", "late", "mark", "ok", "error"} : Move(n, from, to)
    BY <1>1 DEF Arrive, Check, Mark, Fail, Abandoned
  <2>3. SameRequests /\ attempts' \in Seq(Attempt)
    BY <2>1, <2>2 DEF Move, SameRequests, Attempt
  <2>4. UNCHANGED <<outbox, cursor, delivered, dropped, pc, batch>>
    BY <1>1 DEF Arrive, Check, Mark, Fail, originVars, forwardVars, destinationVars
  <2>5. CASE Arrive(n)
    BY <2>1, <2>3, <2>4, <2>5 DEF Arrive, Move, destinationVars, HandlerMoves
  <2>6. CASE Check(n)
    BY <2>1, <2>3, <2>4, <2>6 DEF Check, Move, destinationVars, HandlerMoves
  <2>7. CASE Mark(n)
    BY <2>1, <2>3, <2>4, <2>7 DEF Mark, Move, HandlerMoves
  <2>8. CASE Fail(n)
    BY <2>1, <2>3, <2>4, <2>8 DEF Fail, Move, Abandoned, destinationVars, HandlerMoves
  <2>9. QED BY <1>1, <2>5, <2>6, <2>7, <2>8
<1>2. CASE Crash
  <2>1. \A n \in DOMAIN attempts : attempts[n] \in Attempt
    BY DEF TypeOK
  <2>2. \A n \in DOMAIN attempts :
          /\ attempts'[n].event = attempts[n].event
          /\ attempts'[n] \in Attempt
          /\ attempts'[n].at \in {"mark", "ok"} => attempts[n].at = "ok"
    BY <1>2, <2>1 DEF Crash, Attempt, Abandoned
  <2>3. attempts' \in Seq(Attempt) /\ DOMAIN attempts' = DOMAIN attempts
    <3>1. attempts \in Seq(Attempt)
      BY DEF TypeOK
    <3>2. Len(attempts) \in Nat /\ DOMAIN attempts = 1 .. Len(attempts)
      BY <3>1
    <3>3. attempts' \in [1 .. Len(attempts) -> Attempt]
      BY <1>2, <2>2, <3>2 DEF Crash
    <3>4. QED BY <3>2, <3>3, SeqDef
  <2>4. QED
    BY <1>2, <2>2, <2>3 DEF Crash, originVars, forwardVars, HandlerMoves, SameRequests, TypeOK
<1>3. QED BY <1>1, <1>2

\* Every step of the model is of one of these kinds.
LEMMA StepKinds ==
  ASSUME TypeOK, [Next]_vars
  PROVE  \/ Quiet
         \/ \E s \in Senders, t \in Targets : Write(s, t)
         \/ \E t \in Targets : ReadInbox(t)
         \/ \E e \in batch : Drop(e) \/ Post(e)
         \/ Acked
         \/ HandlerMoves
         \/ \E n \in DOMAIN attempts : Insert(n)
<1>1. CASE UNCHANGED vars
  BY <1>1 DEF vars, originVars, forwardVars, destinationVars, Quiet, UnchangedMail
<1>2. CASE \E s \in Senders : SenderArrives(s) \/ SenderLeaves(s)
  BY <1>2 DEF SenderArrives, SenderLeaves, forwardVars, destinationVars, Quiet, UnchangedMail
<1>3. CASE \E t \in Targets : TargetLeaves(t)
  BY <1>3 DEF TargetLeaves, originVars, forwardVars, Quiet, UnchangedMail
<1>4. CASE LearnSenders \/ Revoke \/ Pair
  BY <1>4 DEF LearnSenders, Revoke, Pair, originVars, forwardVars, destinationVars, Quiet,
              UnchangedMail
<1>5. CASE Start \/ ReadRoster
  BY <1>5 DEF Start, ReadRoster, originVars, destinationVars, Quiet, UnchangedMail
<1>6. CASE End
  BY <1>6 DEF End, Idle, originVars, destinationVars, Quiet, UnchangedMail
<1>7. QED
  BY <1>1, <1>2, <1>3, <1>4, <1>5, <1>6, HandlersMove DEF Next, Forward, Handle

\* A written message gets the next event id; the earlier ones stay what they are.
LEMMA WriteAppends ==
  ASSUME TypeOK, NEW s \in Senders, NEW t \in Targets, Write(s, t)
  PROVE  /\ outbox' \in Seq(Letter)
         /\ Len(outbox) \in Nat /\ Len(outbox') = Len(outbox) + 1
         /\ Events = 1 .. Len(outbox) /\ Events' = Events \cup {Len(outbox')}
         /\ \A e \in Events : outbox'[e] = outbox[e]
         /\ outbox'[Len(outbox')].to = t
         /\ \A e \in Events : e < Len(outbox')
<1>1. outbox \in Seq(Letter) /\ [from |-> s, to |-> t] \in Letter
  BY DEF TypeOK, Letter
<1>2. outbox' = Append(outbox, [from |-> s, to |-> t])
  BY DEF Write
<1>3. Len(outbox) \in Nat /\ outbox' \in Seq(Letter) /\ Len(outbox') = Len(outbox) + 1
  BY <1>1, <1>2
<1>4. Events = 1 .. Len(outbox) /\ Events' = 1 .. Len(outbox')
  BY DEF Events
<1>5. QED BY <1>1, <1>2, <1>3, <1>4

\* A posted request is the last one, and is awaited.
LEMMA PostAppends ==
  ASSUME TypeOK, NEW e \in batch, Post(e)
  PROVE  /\ attempts' \in Seq(Attempt)
         /\ Len(attempts) \in Nat
         /\ DOMAIN attempts' = DOMAIN attempts \cup {Len(attempts) + 1}
         /\ \A n \in DOMAIN attempts : attempts'[n] = attempts[n]
         /\ attempts'[Len(attempts) + 1].event = e
         /\ attempts'[Len(attempts) + 1].at = "wire"
         /\ Current'.event = e
<1>1. attempts \in Seq(Attempt) /\ e \in Nat
  BY DEF TypeOK, Events
<1>2. [event |-> e, at |-> "wire"] \in Attempt
  BY <1>1 DEF Attempt
<1>3. attempts' = Append(attempts, [event |-> e, at |-> "wire"])
  BY DEF Post
<1>4. QED BY <1>1, <1>2, <1>3 DEF Current

\* An insertion is the last one; the handler moves on to mark it, or ends.
LEMMA InsertAppends ==
  ASSUME TypeOK, NEW n \in DOMAIN attempts, Insert(n)
  PROVE  /\ attempts' \in Seq(Attempt) /\ SameRequests
         /\ \A m \in DOMAIN attempts : m # n => attempts'[m] = attempts[m]
         /\ delivered' \in Seq(Events)
         /\ Len(delivered) \in Nat
         /\ DOMAIN delivered' = DOMAIN delivered \cup {Len(delivered) + 1}
         /\ \A i \in DOMAIN delivered : delivered'[i] = delivered[i]
         /\ delivered'[Len(delivered) + 1] = attempts[n].event
<1>1. attempts \in Seq(Attempt) /\ attempts[n] \in Attempt /\ attempts[n].event \in Events
  BY DEF TypeOK
<1>2. PICK from \in {"insert", "late"}, to \in {"mark", "error"} : Move(n, from, to)
  BY DEF Insert
<1>3. attempts' \in Seq(Attempt) /\ SameRequests
  BY <1>1, <1>2 DEF Move, SameRequests, Attempt
<1>4. \A m \in DOMAIN attempts : m # n => attempts'[m] = attempts[m]
  BY <1>1, <1>2 DEF Move
<1>5. delivered \in Seq(Events) /\ delivered' = Append(delivered, attempts[n].event)
  BY DEF Insert, TypeOK
<1>6. QED BY <1>1, <1>3, <1>4, <1>5

LEMMA RelayTypeStep ==
  ASSUME TypeOK, [Next]_vars
  PROVE  TypeOK'
<1>1. CASE UNCHANGED vars
  BY <1>1 DEF vars, originVars, forwardVars, destinationVars, TypeOK, Events, Current
<1>2. ASSUME NEW s \in Senders, SenderArrives(s) \/ SenderLeaves(s)
      PROVE  TypeOK'
  BY <1>2 DEF SenderArrives, SenderLeaves, forwardVars, destinationVars, TypeOK, Events, Current
<1>3. ASSUME NEW s \in Senders, NEW t \in Targets, Write(s, t)
      PROVE  TypeOK'
  <2>1. UNCHANGED <<status, cursor, trusted, pc, roster, pending, batch, attempts, present, known,
                    delivered, ledger, dropped>>
    BY <1>3 DEF Write, forwardVars, destinationVars
  <2>2. outbox' \in Seq(Letter) /\ Events \subseteq Events' /\ 0 .. Len(outbox) \subseteq 0 .. Len(outbox')
    BY <1>3, WriteAppends
  <2>3. delivered' \in Seq(Events')
    BY <2>1, <2>2, SeqMonotonic DEF TypeOK
  <2>4. cursor' \in [Targets -> 0 .. Len(outbox')]
    BY <2>1, <2>2 DEF TypeOK
  <2>5. dropped' \subseteq Events'
    BY <2>1, <2>2 DEF TypeOK
  <2>6. QED BY <2>1, <2>2, <2>3, <2>4, <2>5 DEF TypeOK, Current
<1>4. CASE \E t \in Targets : TargetLeaves(t)
  BY <1>4 DEF TargetLeaves, originVars, forwardVars, TypeOK, Events, Current
<1>5. CASE LearnSenders \/ Revoke \/ Pair
  BY <1>5 DEF LearnSenders, Revoke, Pair, originVars, forwardVars, destinationVars, TypeOK, Here,
              Events, Current
<1>6. CASE Start \/ ReadRoster \/ End
  BY <1>6 DEF Start, ReadRoster, End, Idle, originVars, destinationVars, TypeOK, Here, Events,
              Current
<1>7. ASSUME NEW t \in Targets, ReadInbox(t)
      PROVE  TypeOK'
  <2>1. batch' \subseteq Events
    BY <1>7 DEF ReadInbox, Inbox
  <2>2. QED
    BY <1>7, <2>1 DEF ReadInbox, originVars, destinationVars, TypeOK, Events, Current
<1>8. ASSUME NEW e \in batch, Advance(e)
      PROVE  cursor' \in [Targets -> 0 .. Len(outbox)] /\ batch' \subseteq Events
  <2>1. e \in Events /\ e \in 0 .. Len(outbox)
    BY DEF TypeOK, Events
  <2>2. QED BY <1>8, <2>1 DEF Advance, TypeOK
<1>9. ASSUME NEW e \in batch, Drop(e)
      PROVE  TypeOK'
  <2>1. dropped' \subseteq Events
    BY <1>9 DEF Drop, TypeOK
  <2>2. QED
    BY <1>8, <1>9, <2>1 DEF Drop, destinationVars, TypeOK, Events, Current
<1>10. ASSUME NEW e \in batch, Post(e)
       PROVE  TypeOK'
  <2>1. \A n \in DOMAIN attempts' : attempts'[n].event \in Events
    <3>1. e \in Events /\ \A n \in DOMAIN attempts : attempts[n].event \in Events
      BY DEF TypeOK
    <3>2. DOMAIN attempts' = DOMAIN attempts \cup {Len(attempts) + 1}
      BY <1>10, PostAppends
    <3>3. attempts'[Len(attempts) + 1].event = e
      BY <1>10, PostAppends
    <3>4. \A n \in DOMAIN attempts : attempts'[n] = attempts[n]
      BY <1>10, PostAppends
    <3>5. ASSUME NEW n \in DOMAIN attempts'
          PROVE  attempts'[n].event \in Events
      <4>1. CASE n \in DOMAIN attempts
        BY <3>1, <3>4, <4>1
      <4>2. CASE n = Len(attempts) + 1
        BY <3>1, <3>3, <4>2
      <4>3. QED BY <3>2, <4>1, <4>2
    <3>6. QED BY <3>5
  <2>2. Current'.event \in batch' /\ batch' = batch
    BY <1>10, PostAppends DEF Post, forwardVars
  <2>3. Len(attempts) + 1 \in DOMAIN attempts'
    BY <1>10, PostAppends
  <2>4. attempts' # <<>>
    BY <2>3
  <2>5. QED
    BY <1>10, <2>1, <2>2, <2>4, PostAppends DEF Post, originVars, destinationVars, TypeOK, Events
<1>11. CASE Acked
  <2>1. Current.event \in batch /\ Advance(Current.event)
    BY <1>11 DEF Acked, TypeOK
  <2>2. cursor' \in [Targets -> 0 .. Len(outbox)] /\ batch' \subseteq Events
    BY <1>8, <2>1
  <2>3. QED
    BY <1>11, <2>2 DEF Acked, destinationVars, TypeOK, Events
<1>12. ASSUME NEW n \in DOMAIN attempts, Insert(n)
       PROVE  TypeOK'
  <2>1. UNCHANGED <<outbox, status, cursor, trusted, pc, roster, pending, batch, present, known,
                    ledger, dropped>>
    BY <1>12 DEF Insert, originVars, forwardVars
  <2>2. attempts' \in Seq(Attempt) /\ SameRequests /\ delivered' \in Seq(Events)
    BY <1>12, InsertAppends
  <2>3. pc = "wait" => attempts' # <<>> /\ Current'.event = Current.event
    BY <2>2 DEF TypeOK, SameRequests, Current
  <2>4. QED BY <2>1, <2>2, <2>3 DEF TypeOK, SameRequests, Events
<1>13. ASSUME \/ Crash
              \/ \E n \in DOMAIN attempts : Arrive(n) \/ Check(n) \/ Mark(n) \/ Fail(n)
       PROVE  TypeOK'
  <2>1. UNCHANGED <<status, trusted, roster, pending, present>> /\ known' \subseteq Senders
    BY <1>13 DEF Arrive, Check, Mark, Fail, Crash, originVars, forwardVars, destinationVars, TypeOK
  <2>2. HandlerMoves
    BY <1>13, HandlersMove
  <2>3. pc = "wait" => attempts' # <<>> /\ Current'.event = Current.event
    BY <2>2 DEF TypeOK, HandlerMoves, SameRequests, Current
  <2>4. QED BY <2>1, <2>2, <2>3 DEF TypeOK, HandlerMoves, SameRequests, Events
<1>14. QED
  BY <1>1, <1>2, <1>3, <1>4, <1>5, <1>6, <1>7, <1>9, <1>10, <1>11, <1>12, <1>13
  DEF Next, Forward, Handle

-----------------------------------------------------------------------------
(* The strengthened invariant *)

LEMMA RelayInvInit == Init => RelayInv
<1>1. SUFFICES ASSUME Init PROVE RelayInv
  OBVIOUS
<1>2. outbox = <<>> /\ attempts = <<>> /\ delivered = <<>> /\ batch = {} /\ ledger = {}
      /\ dropped = {} /\ pc = "idle"
  BY <1>1 DEF Init
<1>3. TypeOK
  BY <1>1, <1>2 DEF Init, TypeOK, Events
<1>4. Events = {} /\ DOMAIN attempts = {} /\ DOMAIN delivered = {}
  BY <1>2 DEF Events
<1>5. QED
  BY <1>2, <1>3, <1>4 DEF RelayInv, NothingSkipped, LedgerIsHonest, InOrder, HandlersAreHonest,
     BatchFollowsCursor, AwaitedIsFirst, PostedInTurn

\* A quiet step disturbs nothing: at most it empties the batch and awaits no
\* request.
LEMMA QuietStep ==
  ASSUME RelayInv, TypeOK', Quiet
  PROVE  RelayInv'
<1>1. UNCHANGED <<outbox, cursor, delivered, ledger, dropped, attempts>>
  BY DEF Quiet, UnchangedMail
<1>2. NothingSkipped' /\ LedgerIsHonest' /\ InOrder' /\ HandlersAreHonest' /\ PostedInTurn'
  BY <1>1 DEF RelayInv, NothingSkipped, LedgerIsHonest, InOrder, HandlersAreHonest, PostedInTurn,
              Settled, Inserted, GivenUp, Events
<1>3. BatchFollowsCursor' /\ AwaitedIsFirst'
  <2>1. CASE UNCHANGED <<pc, batch>>
    BY <1>1, <2>1 DEF RelayInv, BatchFollowsCursor, AwaitedIsFirst, First, Current, Events
  <2>2. CASE pc' # "wait" /\ batch' \in {batch, {}}
    BY <1>1, <2>2 DEF RelayInv, BatchFollowsCursor, AwaitedIsFirst, Events
  <2>3. QED BY <2>1, <2>2 DEF Quiet
<1>4. QED BY <1>2, <1>3 DEF RelayInv

\* A message written is later than every other and past every cursor.
LEMMA WriteStep ==
  ASSUME RelayInv, TypeOK', NEW s \in Senders, NEW t \in Targets, Write(s, t)
  PROVE  RelayInv'
<1> DEFINE new == Len(outbox')
<1>1. UNCHANGED <<cursor, pc, batch, attempts, delivered, ledger, dropped>>
  BY DEF Write, forwardVars, destinationVars
<1>2. TypeOK
  BY DEF RelayInv
<1>3. /\ new \in Nat
      /\ Events' = Events \cup {new} /\ Events \subseteq Nat
      /\ \A e \in Events : outbox'[e] = outbox[e] /\ e < new
      /\ outbox'[new].to = t
  BY <1>2, WriteAppends
<1>4. \A u \in Targets : cursor[u] \in Nat /\ cursor[u] < new
  BY <1>2, WriteAppends DEF TypeOK
<1> HIDE DEF new
<1>5. NothingSkipped'
  <2>1. SUFFICES ASSUME NEW e \in Events', e <= cursor[outbox'[e].to]
                 PROVE  Inserted(e) \/ GivenUp(e)
    BY <1>1 DEF NothingSkipped, Inserted, GivenUp
  <2>2. e # new
    BY <1>3, <1>4, <2>1
  <2>3. e \in Events /\ outbox'[e] = outbox[e]
    BY <1>3, <2>2
  <2>4. QED BY <2>1, <2>3 DEF RelayInv, NothingSkipped
<1>6. LedgerIsHonest' /\ HandlersAreHonest'
  BY <1>1 DEF RelayInv, LedgerIsHonest, HandlersAreHonest, Inserted
<1>7. InOrder'
  <2>1. SUFFICES ASSUME NEW j \in DOMAIN delivered, NEW e \in Events',
                        e < delivered[j], outbox'[e].to = outbox'[delivered[j]].to
                 PROVE  GivenUp(e) \/ \E i \in 1 .. j : delivered[i] = e
    BY <1>1 DEF InOrder, GivenUp
  <2>2. delivered[j] \in Events
    BY <1>2 DEF TypeOK
  <2>3. e \in Events /\ outbox'[e] = outbox[e] /\ outbox'[delivered[j]] = outbox[delivered[j]]
    <3>1. delivered[j] \in Nat /\ delivered[j] < new /\ outbox'[delivered[j]] = outbox[delivered[j]]
      BY <1>3, <2>2
    <3>2. e \in Nat /\ e < delivered[j]
      BY <1>3, <2>1
    <3>3. e # new
      BY <1>3, <3>1, <3>2
    <3>4. QED BY <1>3, <3>1, <3>3
  <2>4. QED BY <2>1, <2>3 DEF RelayInv, InOrder
<1>8. BatchFollowsCursor'
  <2>1. SUFFICES ASSUME NEW e \in batch
                 PROVE  /\ cursor[outbox'[e].to] < e
                        /\ \A f \in Events' :
                             f < e /\ outbox'[f].to = outbox'[e].to /\ f \notin batch =>
                               f <= cursor[outbox'[f].to]
    BY <1>1 DEF BatchFollowsCursor
  <2>2. e \in Events /\ outbox'[e] = outbox[e]
    BY <1>2, <1>3 DEF TypeOK
  <2>3. \A f \in Events' : f < e => f \in Events /\ outbox'[f] = outbox[f]
    BY <1>3, <2>2
  <2>4. QED BY <2>2, <2>3 DEF RelayInv, BatchFollowsCursor
<1>9. AwaitedIsFirst'
  BY <1>1 DEF RelayInv, AwaitedIsFirst, First, Current
<1>10. PostedInTurn'
  <2>1. SUFFICES ASSUME NEW n \in DOMAIN attempts, NEW e \in Events',
                        e < attempts[n].event,
                        outbox'[e].to = outbox'[attempts[n].event].to
                 PROVE  Settled(e)
    BY <1>1 DEF PostedInTurn, Settled, Inserted, GivenUp
  <2>2. attempts[n].event \in Events
    BY <1>2 DEF TypeOK
  <2>3. attempts[n].event < new /\ attempts[n].event \in Nat
        /\ outbox'[attempts[n].event] = outbox[attempts[n].event]
    BY <1>3, <2>2
  <2>4. e \in Events /\ outbox'[e] = outbox[e]
    <3>1. e \in Nat /\ e < attempts[n].event
      BY <1>3, <2>1
    <3>2. e # new
      BY <1>3, <2>3, <3>1
    <3>3. QED BY <1>3, <3>2
  <2>5. outbox[e].to = outbox[attempts[n].event].to
    BY <2>1, <2>3, <2>4
  <2>6. QED BY <2>1, <2>4, <2>5 DEF RelayInv, PostedInTurn
<1>11. QED BY <1>5, <1>6, <1>7, <1>8, <1>9, <1>10 DEF RelayInv

\* A page read from an inbox leaves out nothing between the cursor and its end.
LEMMA ReadStep ==
  ASSUME RelayInv, TypeOK', NEW t \in Targets, ReadInbox(t)
  PROVE  RelayInv'
<1>1. UNCHANGED <<outbox, cursor, delivered, ledger, dropped, attempts, pc>> /\ pc = "inbox"
  BY DEF ReadInbox, originVars, destinationVars
<1>2. NothingSkipped' /\ LedgerIsHonest' /\ InOrder' /\ HandlersAreHonest' /\ PostedInTurn'
  BY <1>1 DEF RelayInv, NothingSkipped, LedgerIsHonest, InOrder, HandlersAreHonest, PostedInTurn,
              Settled, Inserted, GivenUp, Events
<1>3. BatchFollowsCursor'
  <2>1. CASE batch' = {}
    BY <2>1 DEF BatchFollowsCursor
  <2>2. ASSUME NEW c \in Inbox(t), batch' = {e \in Inbox(t) : e <= c}
        PROVE  BatchFollowsCursor'
    <3>1. Events \subseteq Nat /\ cursor[t] \in Nat
      BY DEF RelayInv, TypeOK, Events
    <3>2. c \in Events
      BY DEF Inbox
    <3>3. SUFFICES ASSUME NEW e \in batch'
                   PROVE  /\ cursor[outbox[e].to] < e
                          /\ \A f \in Events :
                               f < e /\ outbox[f].to = outbox[e].to /\ f \notin batch' =>
                                 f <= cursor[outbox[f].to]
      BY <1>1 DEF BatchFollowsCursor, Events
    <3>4. e \in Events /\ outbox[e].to = t /\ e > cursor[t] /\ e <= c
      BY <2>2, <3>3 DEF Inbox
    <3>5. ASSUME NEW f \in Events, f < e, outbox[f].to = t, f \notin batch'
          PROVE  f <= cursor[t]
      <4>1. f <= c
        BY <3>1, <3>2, <3>4, <3>5
      <4>2. f \notin Inbox(t)
        BY <2>2, <3>5, <4>1
      <4>3. QED BY <3>1, <3>5, <4>2 DEF Inbox
    <3>6. QED BY <3>1, <3>4, <3>5
  <2>3. QED BY <2>1, <2>2 DEF ReadInbox
<1>4. AwaitedIsFirst'
  BY <1>1 DEF AwaitedIsFirst
<1>5. QED BY <1>2, <1>3, <1>4 DEF RelayInv

\* What lies before the first message of the batch, in the same mailbox, is
\* settled already.
LEMMA FirstIsNext ==
  ASSUME RelayInv, NEW e \in batch, First(e),
         NEW f \in Events, f < e, outbox[f].to = outbox[e].to
  PROVE  f <= cursor[outbox[f].to] /\ Settled(f)
<1>1. Events \subseteq Nat /\ batch \subseteq Nat
  BY DEF RelayInv, TypeOK, Events
<1>2. f \notin batch
  BY <1>1 DEF First
<1>3. f <= cursor[outbox[f].to]
  BY <1>2 DEF RelayInv, BatchFollowsCursor
<1>4. QED BY <1>3 DEF RelayInv, NothingSkipped, Settled

\* The cursor may move to the first message of the batch once that is settled.
LEMMA AdvanceStep ==
  ASSUME RelayInv, NEW e \in batch, First(e), Advance(e), (Settled(e))',
         UNCHANGED <<outbox, delivered, attempts>>, dropped \subseteq dropped'
  PROVE  NothingSkipped' /\ BatchFollowsCursor'
<1>1. /\ Events' = Events /\ Events \subseteq Nat /\ e \in Events
      /\ cursor \in [Targets -> Nat] /\ \A f \in Events : outbox[f].to \in Targets
  <2>1. TypeOK
    BY DEF RelayInv
  <2>2. Len(outbox) \in Nat /\ Events \subseteq Nat /\ 0 .. Len(outbox) \subseteq Nat
    BY <2>1 DEF TypeOK, Events
  <2>3. Events' = Events /\ e \in Events
    BY <2>1 DEF TypeOK, Events
  <2>4. cursor \in [Targets -> Nat]
    BY <2>1, <2>2 DEF TypeOK
  <2>5. \A f \in Events : outbox[f].to \in Targets
    <3>1. outbox \in Seq(Letter)
      BY <2>1 DEF TypeOK
    <3>2. \A f \in Events : outbox[f] \in Letter
      BY <3>1, ElementOfSeq DEF Events
    <3>3. QED BY <3>2 DEF Letter
  <2>6. QED BY <2>2, <2>3, <2>4, <2>5
<1>2. \A f \in Events :
        cursor'[outbox[f].to] = IF outbox[f].to = outbox[e].to THEN e ELSE cursor[outbox[f].to]
  BY <1>1 DEF Advance
<1>3. \A f \in Events : Settled(f) => (Settled(f))'
  BY DEF Settled, Inserted, GivenUp
<1>4. ASSUME NEW f \in Events, f <= cursor'[outbox[f].to]
      PROVE  (Settled(f))'
  <2>1. CASE f = e
    BY <2>1
  <2>2. CASE outbox[f].to = outbox[e].to /\ f # e
    <3>1. f < e
      BY <1>1, <1>2, <1>4, <2>2
    <3>2. QED BY <1>3, <2>2, <3>1, FirstIsNext
  <2>3. CASE outbox[f].to # outbox[e].to
    BY <1>2, <1>3, <1>4, <2>3 DEF RelayInv, NothingSkipped, Settled
  <2>4. QED BY <2>1, <2>2, <2>3
<1>5. NothingSkipped'
  BY <1>1, <1>4 DEF NothingSkipped, Settled
<1>6. ASSUME NEW g \in batch, g # e
      PROVE  /\ cursor'[outbox[g].to] < g
             /\ \A f \in Events :
                  f < g /\ outbox[f].to = outbox[g].to /\ f \notin batch \ {e} =>
                    f <= cursor'[outbox[f].to]
  <2>1. g \in Events /\ e < g
    BY <1>1, <1>6 DEF First, RelayInv, TypeOK
  <2>2. cursor'[outbox[g].to] < g
    BY <1>2, <2>1 DEF RelayInv, BatchFollowsCursor
  <2>3. ASSUME NEW f \in Events, f < g, outbox[f].to = outbox[g].to, f \notin batch \ {e}
        PROVE  f <= cursor'[outbox[f].to]
    <3>1. CASE f = e
      BY <1>1, <1>2, <3>1
    <3>2. CASE f # e
      <4>1. f <= cursor[outbox[f].to]
        BY <2>3, <3>2 DEF RelayInv, BatchFollowsCursor
      <4>2. cursor[outbox[e].to] < e
        BY DEF RelayInv, BatchFollowsCursor
      <4>3. cursor[outbox[f].to] \in Nat /\ cursor[outbox[e].to] \in Nat
        BY <1>1
      <4>4. QED BY <1>1, <1>2, <4>1, <4>2, <4>3
    <3>3. QED BY <3>1, <3>2
  <2>4. QED BY <2>2, <2>3
<1>7. BatchFollowsCursor'
  BY <1>1, <1>6 DEF BatchFollowsCursor, Advance
<1>8. QED BY <1>5, <1>7

\* A message without a sender is settled by being given up.
LEMMA DropStep ==
  ASSUME RelayInv, TypeOK', NEW e \in batch, Drop(e)
  PROVE  RelayInv'
<1>1. /\ UNCHANGED <<outbox, attempts, delivered, ledger, pc>> /\ pc = "inbox"
      /\ First(e) /\ Advance(e)
      /\ dropped' = dropped \cup {e}
  BY DEF Drop, destinationVars
<1>2. (GivenUp(e))'
  BY <1>1 DEF GivenUp
<1>3. NothingSkipped' /\ BatchFollowsCursor'
  BY <1>1, <1>2, AdvanceStep DEF Settled
<1>4. \A f : GivenUp(f) => (GivenUp(f))'
  BY <1>1 DEF GivenUp
<1>5. \A f : Inserted(f) => (Inserted(f))'
  BY <1>1 DEF Inserted
<1>6. LedgerIsHonest' /\ HandlersAreHonest'
  BY <1>1, <1>5 DEF RelayInv, LedgerIsHonest, HandlersAreHonest
<1>7. InOrder'
  BY <1>1, <1>4 DEF RelayInv, InOrder, Events
<1>8. PostedInTurn'
  BY <1>1, <1>4, <1>5 DEF RelayInv, PostedInTurn, Settled, Events
<1>9. AwaitedIsFirst'
  BY <1>1 DEF AwaitedIsFirst
<1>10. QED BY <1>3, <1>6, <1>7, <1>8, <1>9 DEF RelayInv

\* An acknowledged message is settled: the handler that said so inserted it, or
\* found it in the ledger.
LEMMA AckedStep ==
  ASSUME RelayInv, TypeOK', Acked
  PROVE  RelayInv'
<1>1. /\ UNCHANGED <<outbox, attempts, delivered, ledger, dropped>>
      /\ pc = "wait" /\ pc' = "inbox" /\ Advance(Current.event)
      /\ Current.at = "ok"
  BY DEF Acked, destinationVars
<1>2. Len(attempts) \in DOMAIN attempts
  BY <1>1 DEF RelayInv, TypeOK
<1>3. PICK e \in batch : e = Current.event /\ First(e) /\ Advance(e) /\ Inserted(e)
  BY <1>1, <1>2 DEF RelayInv, TypeOK, AwaitedIsFirst, HandlersAreHonest, Current
<1>4. (Settled(e))'
  BY <1>1, <1>3 DEF Settled, Inserted
<1>5. NothingSkipped' /\ BatchFollowsCursor'
  BY <1>1, <1>3, <1>4, AdvanceStep
<1>6. LedgerIsHonest' /\ InOrder' /\ HandlersAreHonest' /\ PostedInTurn'
  BY <1>1 DEF RelayInv, LedgerIsHonest, InOrder, HandlersAreHonest, PostedInTurn, Settled, Inserted,
              GivenUp, Events
<1>7. AwaitedIsFirst'
  BY <1>1 DEF AwaitedIsFirst
<1>8. QED BY <1>5, <1>6, <1>7 DEF RelayInv

\* A request is posted for the first message of the batch only.
LEMMA PostStep ==
  ASSUME RelayInv, TypeOK', NEW e \in batch, Post(e)
  PROVE  RelayInv'
<1>1. UNCHANGED <<outbox, cursor, batch, delivered, ledger, dropped>> /\ First(e)
  BY DEF Post, originVars, destinationVars
<1>2. /\ TypeOK
      /\ DOMAIN attempts' = DOMAIN attempts \cup {Len(attempts) + 1}
      /\ \A n \in DOMAIN attempts : attempts'[n] = attempts[n]
      /\ attempts'[Len(attempts) + 1].event = e
      /\ attempts'[Len(attempts) + 1].at = "wire"
      /\ Current'.event = e
  BY PostAppends DEF RelayInv
<1>3. NothingSkipped' /\ LedgerIsHonest' /\ InOrder' /\ BatchFollowsCursor'
  BY <1>1 DEF RelayInv, NothingSkipped, LedgerIsHonest, InOrder, BatchFollowsCursor, Inserted,
              GivenUp, Events
<1>4. AwaitedIsFirst'
  BY <1>1, <1>2 DEF AwaitedIsFirst, First
<1>5. ASSUME NEW n \in DOMAIN attempts'
      PROVE  /\ attempts'[n].at \in {"mark", "ok"} => Inserted(attempts'[n].event)
             /\ \A f \in Events :
                  f < attempts'[n].event /\ outbox[f].to = outbox[attempts'[n].event].to =>
                    Settled(f)
  <2>1. CASE n \in DOMAIN attempts
    BY <1>2, <2>1 DEF RelayInv, HandlersAreHonest, PostedInTurn
  <2>2. CASE n = Len(attempts) + 1
    BY <1>1, <1>2, <2>2, FirstIsNext
  <2>3. QED BY <1>2, <2>1, <2>2
<1>6. HandlersAreHonest' /\ PostedInTurn'
  BY <1>1, <1>5 DEF HandlersAreHonest, PostedInTurn, Settled, Inserted, GivenUp, Events
<1>7. QED BY <1>3, <1>4, <1>6 DEF RelayInv

\* A handler that moves on claims nothing that was not inserted.
LEMMA HandlerStep ==
  ASSUME RelayInv, TypeOK', HandlerMoves
  PROVE  RelayInv'
<1>1. UNCHANGED <<outbox, cursor, delivered, dropped, pc, batch>> /\ SameRequests
  BY DEF HandlerMoves
<1>2. NothingSkipped' /\ InOrder' /\ BatchFollowsCursor'
  BY <1>1 DEF RelayInv, NothingSkipped, InOrder, BatchFollowsCursor, Inserted, GivenUp, Events
<1>3. HandlersAreHonest'
  BY <1>1 DEF HandlerMoves, SameRequests, RelayInv, HandlersAreHonest, LedgerIsHonest, Inserted
<1>4. LedgerIsHonest'
  BY <1>1 DEF HandlerMoves, RelayInv, HandlersAreHonest, LedgerIsHonest, Inserted
<1>5. pc = "wait" => Current'.event = Current.event
  BY <1>1 DEF HandlerMoves, RelayInv, TypeOK, SameRequests, Current
<1>6. AwaitedIsFirst'
  BY <1>1, <1>5 DEF RelayInv, AwaitedIsFirst, First
<1>7. PostedInTurn'
  BY <1>1 DEF SameRequests, RelayInv, PostedInTurn, Settled, Inserted, GivenUp, Events
<1>8. QED BY <1>2, <1>3, <1>4, <1>6, <1>7 DEF RelayInv

\* An insertion comes after those of all earlier messages to the same agent,
\* because its request was posted after they were settled.
LEMMA InsertStep ==
  ASSUME RelayInv, TypeOK', NEW n \in DOMAIN attempts, Insert(n)
  PROVE  RelayInv'
<1> DEFINE new == Len(delivered) + 1
<1>1. TypeOK /\ UNCHANGED <<outbox, cursor, dropped, ledger, pc, batch>>
  BY DEF RelayInv, Insert, originVars, forwardVars
<1>2. /\ SameRequests
      /\ \A m \in DOMAIN attempts : m # n => attempts'[m] = attempts[m]
      /\ new \in Nat /\ DOMAIN delivered = 1 .. Len(delivered) /\ Len(delivered) \in Nat
      /\ DOMAIN delivered' = DOMAIN delivered \cup {new}
      /\ \A i \in DOMAIN delivered : delivered'[i] = delivered[i]
      /\ delivered'[new] = attempts[n].event
  <2>1. delivered \in Seq(Events)
    BY <1>1 DEF TypeOK
  <2>2. new \in Nat /\ DOMAIN delivered = 1 .. Len(delivered) /\ Len(delivered) \in Nat
    BY <2>1
  <2>3. SameRequests /\ \A m \in DOMAIN attempts : m # n => attempts'[m] = attempts[m]
    BY <1>1, InsertAppends
  <2>4. DOMAIN delivered' = DOMAIN delivered \cup {new}
    BY <1>1, InsertAppends
  <2>5. \A i \in DOMAIN delivered : delivered'[i] = delivered[i]
    BY <1>1, InsertAppends
  <2>6. delivered'[new] = attempts[n].event
    BY <1>1, InsertAppends
  <2>7. QED BY <2>2, <2>3, <2>4, <2>5, <2>6
<1> HIDE DEF new
<1>3. /\ \A e : Inserted(e) => (Inserted(e))'
      /\ (\E i \in DOMAIN delivered' : delivered'[i] = attempts[n].event)
      /\ \A e : GivenUp(e) => (GivenUp(e))'
  BY <1>1, <1>2 DEF Inserted, GivenUp
<1>4. NothingSkipped' /\ LedgerIsHonest' /\ PostedInTurn'
  BY <1>1, <1>2, <1>3 DEF RelayInv, NothingSkipped, LedgerIsHonest, PostedInTurn, SameRequests,
                          Settled, Events
<1>5. HandlersAreHonest'
  BY <1>2, <1>3 DEF RelayInv, HandlersAreHonest, SameRequests, Inserted
<1>6. BatchFollowsCursor'
  BY <1>1 DEF RelayInv, BatchFollowsCursor, Events
<1>7. pc = "wait" => Current'.event = Current.event
  BY <1>1, <1>2, InsertAppends DEF TypeOK, SameRequests, Current
<1>8. AwaitedIsFirst'
  BY <1>1, <1>7 DEF RelayInv, AwaitedIsFirst, First
<1>9. ASSUME NEW j \in DOMAIN delivered', NEW e \in Events,
             e < delivered'[j], outbox[e].to = outbox[delivered'[j]].to
      PROVE  GivenUp(e) \/ \E i \in 1 .. j : delivered'[i] = e
  <2>1. CASE j \in DOMAIN delivered
    <3>1. GivenUp(e) \/ \E i \in 1 .. j : delivered[i] = e
      BY <1>2, <1>9, <2>1 DEF RelayInv, InOrder
    <3>2. 1 .. j \subseteq DOMAIN delivered
      BY <1>2, <2>1
    <3>3. QED BY <1>2, <3>1, <3>2
  <2>2. CASE j = new
    <3>1. GivenUp(e) \/ Inserted(e)
      BY <1>2, <1>9, <2>2 DEF RelayInv, PostedInTurn, Settled
    <3>2. DOMAIN delivered \subseteq 1 .. new
      BY <1>2 DEF new
    <3>3. QED BY <1>2, <2>2, <3>1, <3>2 DEF Inserted
  <2>3. QED BY <1>2, <2>1, <2>2
<1>10. InOrder'
  BY <1>1, <1>9 DEF InOrder, Events, GivenUp
<1>11. QED BY <1>1, <1>4, <1>5, <1>6, <1>8, <1>10 DEF RelayInv

LEMMA RelayInvStep == RelayInv /\ [Next]_vars => RelayInv'
<1>1. SUFFICES ASSUME RelayInv, [Next]_vars PROVE RelayInv'
  OBVIOUS
<1>2. TypeOK /\ TypeOK'
  BY <1>1, RelayTypeStep DEF RelayInv
<1>3. QED
  BY <1>1, <1>2, StepKinds, QuietStep, WriteStep, ReadStep, DropStep, PostStep, AckedStep,
     HandlerStep, InsertStep

-----------------------------------------------------------------------------
(* The theorems *)

\* The strengthened invariant holds throughout.
THEOREM RelayInvariant == Spec => []RelayInv
<1>1. QED BY RelayInvInit, RelayInvStep, PTL DEF Spec

\* The relay's state is well formed: no cursor is ahead of the outbox, and a
\* request is awaited only while its message is still in the batch.
THEOREM RelayTypeCorrect == Spec => []TypeOK
<1>1. RelayInv => TypeOK
  BY DEF RelayInv
<1>2. QED BY <1>1, RelayInvariant, PTL

\* The origin's cursor passes only messages that were inserted or given up.
THEOREM RelaySkipsNothing == Spec => []NothingSkipped
<1>1. RelayInv => NothingSkipped
  BY DEF RelayInv
<1>2. QED BY <1>1, RelayInvariant, PTL

\* The ledger lists only messages the destination's daemon has.
THEOREM RelayLedgerIsHonest == Spec => []LedgerIsHonest
<1>1. RelayInv => LedgerIsHonest
  BY DEF RelayInv
<1>2. QED BY <1>1, RelayInvariant, PTL

\* Messages to one agent arrive in the order they were written.
THEOREM RelayKeepsOrder == Spec => []InOrder
<1>1. RelayInv => InOrder
  BY DEF RelayInv
<1>2. QED BY <1>1, RelayInvariant, PTL

\* No request leaves after the peer was revoked.
THEOREM RelayStopsOnRevocation == Spec => RevocationStopsRouting
<1>1. ASSUME TypeOK, [Next]_vars
      PROVE  [Len(attempts') > Len(attempts) => trusted]_vars
  <2>1. Len(attempts) \in Nat
    BY <1>1 DEF TypeOK
  <2>2. CASE \E e \in batch : Post(e)
    BY <2>2 DEF Post
  <2>3. CASE UNCHANGED attempts
    BY <2>1, <2>3
  <2>4. CASE HandlerMoves \/ \E n \in DOMAIN attempts : Insert(n)
    <3>1. attempts' \in Seq(Attempt) /\ DOMAIN attempts' = DOMAIN attempts
      BY <1>1, <2>4, InsertAppends DEF HandlerMoves, SameRequests
    <3>2. Len(attempts') = Len(attempts)
      BY <1>1, <3>1 DEF TypeOK
    <3>3. QED BY <2>1, <3>2
  <2>5. UNCHANGED attempts \/ HandlerMoves \/ (\E n \in DOMAIN attempts : Insert(n))
        \/ \E e \in batch : Post(e)
    BY <1>1, StepKinds DEF Quiet, Write, ReadInbox, Drop, Acked
  <2>6. QED BY <2>2, <2>3, <2>4, <2>5
<1>2. TypeOK /\ [Next]_vars => [Len(attempts') > Len(attempts) => trusted]_vars
  BY <1>1
<1>3. QED BY <1>2, RelayTypeCorrect, PTL DEF Spec, RevocationStopsRouting

-----------------------------------------------------------------------------
(* The shadows: the invariant *)

ShadowCalls ==
  [agent : Remotes \cup {"none"}, op : {"none", "register", "heartbeat"},
   at : {"none", "sent", "ok", "error"}, id : {"none", "row", "dead"}]

ShadowTypes ==
  /\ remote \subseteq Remotes /\ rows \subseteq Remotes /\ age \in [Remotes -> Nat]
  /\ shadows \in [Remotes -> {"none", "row", "dead"}] /\ due \in [Remotes -> BOOLEAN]
  /\ listed \subseteq Remotes /\ todo \subseteq Remotes
  /\ pass \in {"idle", "asked", "ensure"} /\ call \in ShadowCalls
  /\ {trust, up, synced, settled} \subseteq BOOLEAN

\* A pass runs in a runtime that is up, and requests are made by a pass.
PassOK ==
  /\ pass # "idle" \/ settled => up
  /\ settled => trust
  /\ call.at # "none" => pass = "ensure" /\ call.agent \in Remotes

\* An id that is cached, or about to be, and not that of a dead row is a row's.
CachedIsRow ==
  /\ \A r \in Remotes : shadows[r] = "row" => r \in rows
  /\ call.at = "ok" /\ call.id = "row" => call.agent \in rows

Held(r) == r \in listed /\ shadows[r] = "row"

\* Between two ticks a pass ends, so that one tick at most passes while it is
\* under way.  A row was kept alive just now, or in this pass, or in the last.
RowsAreYoung ==
  /\ \A r \in Remotes : shadows[r] = "row" /\ ~due[r] => age[r] <= 1
  /\ call.at = "ok" => age[call.agent] <= IF synced THEN 0 ELSE 1
  /\ pass = "ensure" => \A r \in Remotes \ todo : Held(r) => age[r] <= IF synced THEN 1 ELSE 2
  /\ settled => \A r \in Remotes : Held(r) => age[r] <= IF synced THEN 2 ELSE 3

ShadowsInv == ShadowTypes /\ PassOK /\ CachedIsRow /\ RowsAreYoung

-----------------------------------------------------------------------------
(* The shadows: lemmas *)

LEMMA ShadowsInitially == ShadowsInit => ShadowsInv
<1> SUFFICES ASSUME ShadowsInit PROVE ShadowsInv
  OBVIOUS
<1>1. call \in ShadowCalls /\ call.at = "none"
  BY DEF ShadowsInit, NoCall, ShadowCalls
<1>2. ShadowTypes
  BY <1>1 DEF ShadowsInit, ShadowTypes
<1>3. PassOK /\ CachedIsRow /\ RowsAreYoung
  BY <1>1 DEF ShadowsInit, PassOK, CachedIsRow, Held, RowsAreYoung
<1>4. QED BY <1>2, <1>3 DEF ShadowsInv

\* Rows go, for the reaper or by deregistration.
LEMMA DeletedRows ==
  ASSUME ShadowsInv, NEW R \in SUBSET Remotes, DeleteRows(R),
         UNCHANGED <<remote, trust, up, due, listed, pass, todo, synced, settled>>
  PROVE  ShadowsInv'
<1>1. ShadowTypes /\ call \in ShadowCalls
  BY DEF ShadowsInv, ShadowTypes
<1>2. /\ rows' = rows \ R
      /\ age' = [r \in Remotes |-> IF r \in R THEN 0 ELSE age[r]]
      /\ shadows' = [r \in Remotes |-> IF r \in R THEN Dead(shadows[r]) ELSE shadows[r]]
      /\ call' = IF call.agent \in R THEN [call EXCEPT !.id = Dead(@)] ELSE call
  BY DEF DeleteRows
<1>3. \A id \in {"none", "row", "dead"} : Dead(id) \in {"none", "dead"} /\ (id # "row" => Dead(id) = id)
  BY DEF Dead
<1>4. /\ call' \in ShadowCalls /\ call'.agent = call.agent /\ call'.at = call.at
      /\ call'.id = "row" => call.agent \notin R /\ call.id = "row"
  <2>1. call.id \in {"none", "row", "dead"}
    BY <1>1 DEF ShadowCalls
  <2>2. CASE call.agent \in R
    <3>1. call' = [call EXCEPT !.id = Dead(call.id)]
      BY <1>2, <2>2
    <3>2. QED BY <1>1, <1>3, <2>1, <3>1 DEF ShadowCalls
  <2>3. CASE call.agent \notin R
    BY <1>1, <1>2, <2>3
  <2>4. QED BY <2>2, <2>3
<1>5. /\ shadows' \in [Remotes -> {"none", "row", "dead"}]
      /\ \A r \in Remotes : shadows'[r] = "row" => r \notin R /\ shadows[r] = "row"
  BY <1>1, <1>2, <1>3 DEF ShadowTypes
<1>6. age' \in [Remotes -> Nat] /\ \A r \in Remotes : age'[r] <= age[r]
  BY <1>1, <1>2 DEF ShadowTypes
<1>7. ShadowTypes'
  BY <1>1, <1>2, <1>4, <1>5, <1>6 DEF ShadowTypes
<1>8. PassOK'
  BY <1>4 DEF ShadowsInv, PassOK
<1>9. CachedIsRow'
  BY <1>2, <1>4, <1>5 DEF ShadowsInv, CachedIsRow
<1>10. RowsAreYoung'
  <2>1. \A r \in Remotes : Held(r)' => Held(r)
    BY <1>5 DEF Held
  <2>2. \A r \in Remotes : age[r] \in Nat /\ age'[r] \in Nat
    BY <1>1, <1>6 DEF ShadowTypes
  <2>3. call.at = "ok" => call.agent \in Remotes
    BY DEF ShadowsInv, PassOK
  <2>4. QED BY <1>4, <1>5, <1>6, <2>1, <2>2, <2>3 DEF ShadowsInv, RowsAreYoung
<1>11. QED BY <1>7, <1>8, <1>9, <1>10 DEF ShadowsInv

\* Time passes only when a pass has ended, if there was one to be.
LEMMA TickStep == ShadowsInv /\ Tick => ShadowsInv'
<1> SUFFICES ASSUME ShadowsInv, Tick PROVE ShadowsInv'
  OBVIOUS
<1>1. /\ ShadowTypes /\ PassOK /\ CachedIsRow /\ RowsAreYoung
      /\ UNCHANGED <<remote, trust, up, rows, shadows, listed, pass, todo, call, settled>>
      /\ synced' = FALSE /\ (up /\ (trust \/ pass # "idle") => synced)
  BY DEF ShadowsInv, Tick, passVars
<1>2. /\ age' \in [Remotes -> Nat]
      /\ \A r \in Remotes : age'[r] <= age[r] + 1 /\ age[r] \in Nat /\ age'[r] \in Nat
  BY TtlAssumption, <1>1 DEF Tick, ShadowTypes
<1>3. due' \in [Remotes -> BOOLEAN] /\ \A r \in Remotes : shadows[r] = "row" => due'[r]
  BY DEF Tick
<1>4. ShadowTypes'
  BY <1>1, <1>2, <1>3 DEF ShadowTypes
<1>5. PassOK' /\ CachedIsRow'
  BY <1>1 DEF PassOK, CachedIsRow
<1>6. RowsAreYoung'
  <2>1. (pass # "idle" \/ settled => synced) /\ (call.at = "ok" => synced /\ pass = "ensure" /\ call.agent \in Remotes)
    BY <1>1 DEF PassOK
  <2>2. \A r \in Remotes : Held(r)' <=> Held(r)
    BY <1>1 DEF Held
  <2>3. call.at = "ok" => age'[call.agent] <= 1
    BY <1>1, <1>2, <2>1 DEF RowsAreYoung
  <2>4. pass = "ensure" => \A r \in Remotes \ todo : Held(r) => age'[r] <= 2
    BY <1>1, <1>2, <2>1 DEF RowsAreYoung
  <2>5. settled => \A r \in Remotes : Held(r) => age'[r] <= 3
    BY <1>1, <1>2, <2>1 DEF RowsAreYoung
  <2>6. QED BY <1>1, <1>3, <2>2, <2>3, <2>4, <2>5 DEF RowsAreYoung
<1>7. QED BY <1>4, <1>5, <1>6 DEF ShadowsInv

\* A step of the pass that leaves the shadows and what is listed alone.
LEMMA ShadowsQuietStep ==
  ASSUME ShadowsInv, UNCHANGED <<rows, age, shadows, due>>,
         call'.at = "ok" => call' = call /\ (synced' => synced),
         listed' \subseteq listed,
         ShadowTypes', PassOK',
         pass' = "ensure" => (pass = "ensure" /\ todo \subseteq todo') \/ listed' \subseteq todo',
         settled' => settled \/ (pass = "ensure" /\ todo = {} /\ synced'),
         synced' => synced \/ (pass' # "ensure" /\ (settled' => pass = "ensure" /\ todo = {}))
  PROVE  ShadowsInv'
<1>1. \A r \in Remotes : age[r] \in Nat
  BY DEF ShadowsInv, ShadowTypes
<1>2. CachedIsRow'
  BY DEF ShadowsInv, CachedIsRow
<1>3. \A r \in Remotes : Held(r)' => Held(r) /\ r \in listed'
  BY DEF Held
<1>4. pass = "ensure" => \A r \in Remotes \ todo : Held(r) => age[r] <= IF synced THEN 1 ELSE 2
  BY DEF ShadowsInv, RowsAreYoung
<1>5. settled => \A r \in Remotes : Held(r) => age[r] <= IF synced THEN 2 ELSE 3
  BY DEF ShadowsInv, RowsAreYoung
<1>6. \A r \in Remotes : shadows'[r] = "row" /\ ~due'[r] => age'[r] <= 1
  BY DEF ShadowsInv, RowsAreYoung
<1>7. pass' = "ensure" => \A r \in Remotes \ todo' : Held(r)' => age'[r] <= IF synced' THEN 1 ELSE 2
  BY <1>1, <1>3, <1>4
<1>8. settled' => \A r \in Remotes : Held(r)' => age'[r] <= IF synced' THEN 2 ELSE 3
  BY <1>1, <1>3, <1>4, <1>5
<1>9. call'.at = "ok" => age'[call'.agent] <= IF synced' THEN 0 ELSE 1
  <2>1. SUFFICES ASSUME call'.at = "ok" PROVE age'[call'.agent] <= IF synced' THEN 0 ELSE 1
    OBVIOUS
  <2>2. call' = call /\ (synced' => synced) /\ call.agent \in Remotes /\ age' = age
    BY <2>1 DEF ShadowsInv, PassOK
  <2>3. age[call.agent] <= IF synced THEN 0 ELSE 1
    BY <2>1, <2>2 DEF ShadowsInv, RowsAreYoung
  <2>4. QED BY <1>1, <2>2, <2>3
<1>10. RowsAreYoung'
  BY <1>6, <1>7, <1>8, <1>9 DEF RowsAreYoung
<1>11. QED BY <1>2, <1>10 DEF ShadowsInv

LEMMA OutsideStep ==
  ASSUME ShadowsInv,
         Trust \/ RuntimeStarts \/ SyncStart \/ ForgetList \/ \E r \in Remotes : RosterChanges(r)
  PROVE  ShadowsInv'
<1>1. /\ UNCHANGED <<rows, age, shadows, due, listed, todo, call, settled>>
      /\ synced' => synced
      /\ pass' = "ensure" => pass = "ensure"
  BY DEF Trust, RuntimeStarts, SyncStart, ForgetList, RosterChanges, rowVars, mapVars, passVars
<1>2. ShadowTypes /\ PassOK
  BY DEF ShadowsInv
<1>3. /\ remote' \subseteq Remotes /\ pass' \in {"idle", "asked", "ensure"}
      /\ {trust', up', synced', settled'} \subseteq BOOLEAN
  BY <1>2 DEF ShadowTypes, Trust, RuntimeStarts, SyncStart, ForgetList, RosterChanges, rowVars, mapVars, passVars
<1>4. ShadowTypes'
  BY <1>1, <1>2, <1>3 DEF ShadowTypes
<1>5. PassOK'
  BY <1>2 DEF ShadowTypes, PassOK, Trust, RuntimeStarts, SyncStart, ForgetList, RosterChanges, rowVars, mapVars, passVars
<1>6. QED BY <1>1, <1>4, <1>5, ShadowsQuietStep

LEMMA IssueStep ==
  ASSUME ShadowsInv, NEW r \in Remotes, Issue(r)
  PROVE  ShadowsInv'
<1>1. /\ UNCHANGED <<remote, trust, up, rows, age, shadows, due, listed, pass, todo, synced, settled>>
      /\ call' = [agent |-> r, at |-> "sent", id |-> shadows[r],
                  op |-> IF shadows[r] = "none" THEN "register" ELSE "heartbeat"]
      /\ pass = "ensure"
  BY DEF Issue, Ensuring, rowVars, mapVars
<1>2. ShadowTypes /\ PassOK
  BY DEF ShadowsInv
<1>3. call' \in ShadowCalls /\ call'.at = "sent" /\ call'.agent = r
  BY <1>1, <1>2 DEF ShadowTypes, ShadowCalls
<1>4. ShadowTypes' /\ PassOK'
  BY <1>1, <1>2, <1>3 DEF ShadowTypes, PassOK
<1>5. QED BY <1>1, <1>3, <1>4, ShadowsQuietStep

LEMMA EndStep ==
  ASSUME ShadowsInv, SyncFail \/ Outage \/ Finish
  PROVE  ShadowsInv'
<1>1. /\ UNCHANGED <<remote, trust, up, rows, age, shadows, due, listed>>
      /\ pass' = "idle" /\ todo' = {} /\ call' = NoCall /\ synced' = TRUE
      /\ settled' = FALSE \/ (settled' = trust /\ pass = "ensure" /\ todo = {})
  BY DEF SyncFail, Outage, Finish, Failed, Ended, rowVars
<1>2. ShadowTypes /\ PassOK
  BY DEF ShadowsInv
<1>3. call' \in ShadowCalls /\ call'.at = "none"
  BY <1>1 DEF NoCall, ShadowCalls
<1>4. ShadowTypes'
  BY <1>1, <1>2, <1>3 DEF ShadowTypes
<1>5. PassOK'
  BY <1>1, <1>2, <1>3 DEF PassOK, ShadowTypes
<1>6. QED BY <1>1, <1>3, <1>4, <1>5, ShadowsQuietStep

LEMMA RosterStep ==
  ASSUME ShadowsInv, RosterRead
  PROVE  ShadowsInv'
<1>1. /\ UNCHANGED <<remote, trust, up, rows, age, shadows, due, call, synced, settled>>
      /\ pass = "asked" /\ pass' = "ensure" /\ todo' = remote /\ listed' = listed \cap remote
  BY DEF RosterRead, rowVars
<1>2. ShadowTypes /\ PassOK
  BY DEF ShadowsInv
<1>3. ShadowTypes' /\ PassOK'
  BY <1>1, <1>2 DEF ShadowTypes, PassOK
<1>4. QED BY <1>1, <1>3, ShadowsQuietStep

\* The runtime forgets the shadows, of one peer or of all.
LEMMA ForgottenStep ==
  ASSUME ShadowsInv, RuntimeStops \/ RevokePeer
  PROVE  ShadowsInv'
<1>1. /\ UNCHANGED <<remote, rows, age, synced>> /\ settled' = FALSE
      /\ shadows' = [r \in Remotes |-> "none"] /\ due' = [r \in Remotes |-> FALSE] /\ listed' = {}
      /\ \/ UNCHANGED <<pass, todo, call>>
         \/ pass' = "idle" /\ todo' = {} /\ call' = NoCall
      /\ trust' \in {trust, FALSE} /\ up' \in {up, FALSE} /\ (up' = up \/ pass' = "idle")
  BY DEF RuntimeStops, RevokePeer, rowVars, passVars
<1>2. ShadowTypes /\ PassOK /\ CachedIsRow /\ RowsAreYoung
  BY DEF ShadowsInv
<1>3. call' \in ShadowCalls /\ (call'.at = "none" \/ (call' = call /\ pass' = pass))
  BY <1>1, <1>2 DEF NoCall, ShadowCalls, ShadowTypes
<1>4. ShadowTypes'
  BY <1>1, <1>2, <1>3 DEF ShadowTypes
<1>5. PassOK'
  BY <1>1, <1>2, <1>3 DEF PassOK, ShadowTypes, NoCall
<1>6. CachedIsRow'
  BY <1>1, <1>2, <1>3 DEF CachedIsRow
<1>7. RowsAreYoung'
  BY <1>1, <1>2, <1>3 DEF RowsAreYoung, Held
<1>8. QED BY <1>4, <1>5, <1>6, <1>7 DEF ShadowsInv

\* The daemon's answer: the row, if there is one, is as young as can be.
LEMMA ServeStep ==
  ASSUME ShadowsInv, Serve
  PROVE  ShadowsInv'
<1>1. /\ UNCHANGED <<remote, trust, up, shadows, due, listed, pass, todo, synced, settled>>
      /\ call.at = "sent"
  BY DEF Serve, mapVars
<1>2. ShadowTypes /\ PassOK /\ CachedIsRow /\ RowsAreYoung /\ call \in ShadowCalls
  BY DEF ShadowsInv, ShadowTypes
<1>3. call.agent \in Remotes
  BY <1>1, <1>2 DEF PassOK
<1>4. CASE call' = [call EXCEPT !.at = "error"] /\ UNCHANGED rowVars
  <2>1. call' \in ShadowCalls /\ call'.at = "error" /\ call'.agent = call.agent
    BY <1>2, <1>4 DEF ShadowCalls
  <2>2. UNCHANGED <<rows, age>>
    BY <1>4 DEF rowVars
  <2>3. ShadowTypes' /\ PassOK'
    BY <1>1, <1>2, <2>1, <2>2 DEF ShadowTypes, PassOK
  <2>4. QED BY <1>1, <2>1, <2>2, <2>3, ShadowsQuietStep
<1>5. CASE call' = [call EXCEPT !.at = "ok", !.id = "row"] /\ Touch(call.agent)
  <2>1. call' \in ShadowCalls /\ call'.at = "ok" /\ call'.agent = call.agent
    BY <1>2, <1>5 DEF ShadowCalls
  <2>2. /\ rows' = rows \cup {call.agent}
        /\ age' \in [Remotes -> Nat] /\ age'[call.agent] = 0
        /\ \A r \in Remotes : age'[r] \in Nat /\ age'[r] <= age[r] /\ age[r] \in Nat
    BY <1>2, <1>3, <1>5 DEF Touch, ShadowTypes
  <2>3. ShadowTypes'
    BY <1>1, <1>2, <1>3, <2>1, <2>2 DEF ShadowTypes
  <2>4. PassOK' /\ CachedIsRow'
    BY <1>1, <1>2, <2>1, <2>2 DEF PassOK, CachedIsRow
  <2>5. RowsAreYoung'
    <3>1. \A r \in Remotes : Held(r)' <=> Held(r)
      BY <1>1 DEF Held
    <3>2. QED BY <1>1, <1>2, <2>1, <2>2, <3>1 DEF RowsAreYoung
  <2>6. QED BY <2>3, <2>4, <2>5 DEF ShadowsInv
<1>6. QED BY <1>4, <1>5 DEF Serve

\* r is through: cached and alive, or not the shadow of a row.
Through(r) ==
  /\ UNCHANGED <<remote, trust, up, rows, age, pass, synced, settled>>
  /\ pass = "ensure" /\ todo' = todo \ {r} /\ listed' = listed \cup {r}
  /\ shadows' \in [Remotes -> {"none", "row", "dead"}] /\ due' \in [Remotes -> BOOLEAN]
  /\ \A x \in Remotes \ {r} : shadows'[x] = shadows[x] /\ due'[x] = due[x]
  /\ shadows'[r] = "row" => r \in rows /\ age[r] <= 1
  /\ call' = NoCall

LEMMA ThroughOK ==
  ASSUME ShadowsInv, NEW r \in Remotes, Through(r)
  PROVE  ShadowsInv'
<1>1. /\ UNCHANGED <<remote, trust, up, rows, age, pass, synced, settled>>
      /\ pass = "ensure" /\ todo' = todo \ {r} /\ listed' = listed \cup {r}
      /\ \A x \in Remotes \ {r} : shadows'[x] = shadows[x] /\ due'[x] = due[x]
      /\ shadows'[r] = "row" => r \in rows /\ age[r] <= 1
  BY DEF Through
<1>2. ShadowTypes /\ PassOK /\ CachedIsRow /\ RowsAreYoung
  BY DEF ShadowsInv
<1>3. call' \in ShadowCalls /\ call'.at = "none"
  BY DEF Through, NoCall, ShadowCalls
<1>4. ShadowTypes'
  BY <1>1, <1>2, <1>3 DEF Through, ShadowTypes
<1>5. PassOK' /\ CachedIsRow'
  BY <1>1, <1>2, <1>3 DEF PassOK, CachedIsRow
<1>6. \A x \in Remotes \ {r} : Held(x)' <=> Held(x)
  BY <1>1 DEF Held
<1>7. Held(r)' => age[r] <= 1
  BY <1>1 DEF Held
<1>8. \A x \in Remotes : age[x] \in Nat
  BY <1>2 DEF ShadowTypes
<1>9. \A x \in Remotes : shadows'[x] = "row" /\ ~due'[x] => age'[x] <= 1
  BY <1>1, <1>2 DEF RowsAreYoung
<1>10. \A x \in Remotes \ todo' : Held(x)' => age'[x] <= IF synced' THEN 1 ELSE 2
  BY <1>1, <1>2, <1>6, <1>7, <1>8 DEF RowsAreYoung
<1>11. settled' => \A x \in Remotes : Held(x)' => age'[x] <= IF synced' THEN 2 ELSE 3
  BY <1>1, <1>2, <1>6, <1>7, <1>8 DEF RowsAreYoung
<1>12. RowsAreYoung'
  BY <1>3, <1>9, <1>10, <1>11 DEF RowsAreYoung
<1>13. QED BY <1>4, <1>5, <1>12 DEF ShadowsInv

LEMMA CompleteStep ==
  ASSUME ShadowsInv, Complete
  PROVE  ShadowsInv'
<1> DEFINE r == call.agent
<1>1. ShadowTypes /\ PassOK /\ CachedIsRow /\ RowsAreYoung /\ call \in ShadowCalls
  BY DEF ShadowsInv, ShadowTypes
<1>2. call.at = "ok" /\ r \in Remotes /\ pass = "ensure" /\ call.id \in {"none", "row", "dead"}
  BY <1>1 DEF Complete, PassOK, ShadowCalls
<1>3. age[r] \in Nat /\ age[r] <= 1
  BY <1>1, <1>2 DEF RowsAreYoung, ShadowTypes
<1>4. /\ UNCHANGED <<remote, trust, up, rows, age, pass, synced, settled>>
      /\ shadows' = IF call.op = "register" THEN [shadows EXCEPT ![r] = call.id] ELSE shadows
      /\ due' = [due EXCEPT ![r] = FALSE]
      /\ todo' = todo \ {r} /\ listed' = listed \cup {r} /\ call' = NoCall
  BY DEF Complete, rowVars
<1>5. /\ shadows' \in [Remotes -> {"none", "row", "dead"}] /\ due' \in [Remotes -> BOOLEAN]
      /\ \A x \in Remotes \ {r} : shadows'[x] = shadows[x] /\ due'[x] = due[x]
  BY <1>1, <1>2, <1>4 DEF ShadowTypes
<1>6. shadows'[r] = "row" => r \in rows
  BY <1>1, <1>2, <1>4 DEF CachedIsRow, ShadowTypes
<1>7. ASSUME NEW x \in Remotes, x = r PROVE ShadowsInv'
  <2>1. Through(x)
    BY <1>2, <1>3, <1>4, <1>5, <1>6, <1>7 DEF Through
  <2>2. QED BY <2>1, ThroughOK
<1>8. QED BY <1>2, <1>7

LEMMA EnsureCachedStep ==
  ASSUME ShadowsInv, NEW r \in Remotes, EnsureCached(r)
  PROVE  ShadowsInv'
<1>1. ShadowTypes /\ CachedIsRow /\ RowsAreYoung
  BY DEF ShadowsInv
<1>2. Through(r)
  BY <1>1 DEF EnsureCached, Ensuring, Through, ShadowTypes, CachedIsRow, RowsAreYoung, rowVars
<1>3. QED BY <1>2, ThroughOK

LEMMA DeleteStep ==
  ASSUME ShadowsInv, Reap \/ \E r \in Remotes : ForgetDelete(r)
  PROVE  ShadowsInv'
<1>1. UNCHANGED <<remote, trust, up, due, listed, pass, todo, synced, settled>>
  BY DEF Reap, ForgetDelete
<1>2. CASE \E R \in SUBSET Remotes : DeleteRows(R)
  BY <1>1, <1>2, DeletedRows
<1>3. CASE UNCHANGED <<rowVars, shadows, call>>
  <2>1. UNCHANGED <<rows, age, shadows, due, call>>
    BY <1>1, <1>3 DEF rowVars
  <2>2. ShadowTypes' /\ PassOK'
    BY <1>1, <2>1 DEF ShadowsInv, ShadowTypes, PassOK
  <2>3. QED BY <1>1, <2>1, <2>2, ShadowsQuietStep
<1>4. {r \in rows : age[r] >= Ttl} \in SUBSET Remotes /\ \A r \in Remotes : {r} \in SUBSET Remotes
  BY DEF ShadowsInv, ShadowTypes
<1>5. QED BY <1>2, <1>3, <1>4 DEF Reap, ForgetDelete

-----------------------------------------------------------------------------
(* The shadows: theorems *)

LEMMA ShadowsStep == ShadowsInv /\ [ShadowsNext]_shadowsVars => ShadowsInv'
<1> SUFFICES ASSUME ShadowsInv, [ShadowsNext]_shadowsVars PROVE ShadowsInv'
  OBVIOUS
<1>1. CASE Tick
  BY <1>1, TickStep
<1>2. CASE Reap \/ \E r \in Remotes : ForgetDelete(r)
  BY <1>2, DeleteStep
<1>3. CASE Trust \/ RuntimeStarts \/ SyncStart \/ ForgetList \/ \E r \in Remotes : RosterChanges(r)
  BY <1>3, OutsideStep
<1>4. CASE RuntimeStops \/ RevokePeer
  BY <1>4, ForgottenStep
<1>5. CASE RosterRead
  BY <1>5, RosterStep
<1>6. CASE Serve
  BY <1>6, ServeStep
<1>7. CASE Complete
  BY <1>7, CompleteStep
<1>8. CASE SyncFail \/ Outage \/ Finish
  BY <1>8, EndStep
<1>9. CASE \E r \in Remotes : EnsureCached(r)
  BY <1>9, EnsureCachedStep
<1>10. CASE \E r \in Remotes : Issue(r)
  BY <1>10, IssueStep
<1>11. CASE UNCHANGED shadowsVars
  BY <1>11 DEF shadowsVars, rowVars, mapVars, passVars, ShadowsInv, ShadowTypes, PassOK, CachedIsRow,
               Held, RowsAreYoung
<1>12. QED
  BY <1>1, <1>2, <1>3, <1>4, <1>5, <1>6, <1>7, <1>8, <1>9, <1>10, <1>11 DEF ShadowsNext, Pass, Forget

\* Between every two steps, an id the runtime has cached is that of a row unless
\* that row was deleted, and a row that was kept alive in a pass is at most three
\* heartbeat intervals old while passes succeed (ensureShadow, refreshPeer).
THEOREM ShadowsInvariant == ShadowsSpec => []ShadowsInv
<1>1. QED BY ShadowsInitially, ShadowsStep, PTL DEF ShadowsSpec

\* deleteOlderThan removes no shadow of an agent on the roster while the passes
\* succeed, for any number of agents and any time to live of four heartbeat
\* intervals or more (the daemon's is nine): a heartbeat is sent when 20 s have
\* passed, one interval may pass within a pass and one between two.
THEOREM ShadowsSettledAreNotReaped ==
  ASSUME Ttl >= 4
  PROVE  ShadowsSpec => SettledIsNotReaped
<1>1. ShadowsInv => (settled /\ Reap => \A r \in listed : shadows[r] = "row" => r \in rows')
  <2>1. SUFFICES ASSUME ShadowsInv, settled, Reap, NEW r \in listed, shadows[r] = "row"
                 PROVE  r \in rows'
    OBVIOUS
  <2>2. r \in Remotes /\ r \in rows /\ age[r] \in Nat
    BY <2>1 DEF ShadowsInv, ShadowTypes, CachedIsRow
  <2>3. age[r] <= 3
    BY <2>1, <2>2 DEF ShadowsInv, RowsAreYoung, Held
  <2>4. rows' = rows \ {x \in rows : age[x] >= Ttl}
    BY <2>1 DEF Reap, DeleteRows
  <2>5. Ttl \in Nat
    BY TtlAssumption
  <2>6. QED BY <2>2, <2>3, <2>4, <2>5
<1>2. ShadowsInv => [settled /\ Reap => \A r \in listed : shadows[r] = "row" => r \in rows']_shadowsVars
  BY <1>1
<1>3. QED BY <1>2, ShadowsInvariant, PTL DEF SettledIsNotReaped

=============================================================================
