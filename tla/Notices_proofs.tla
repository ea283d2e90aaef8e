--------------------------- MODULE Notices_proofs ---------------------------
(***************************************************************************)
(* Proofs about Notices, for any number of messages and of faults: no      *)
(* notice is lost, and only a reload repeats one.                          *)
(*                                                                         *)
(* What makes it inductive is the order of the event ids: what is pending  *)
(* lies above the prompt under way, and that above what Claude accepted;   *)
(* so accepting a prompt skips nothing, and the cursor of the file may     *)
(* stand for all that is below it.                                         *)
(***************************************************************************)
EXTENDS Notices, TLAPS, WellFoundedInduction

\* The agent knows of the message, or nobody wants to tell it.
Done(e) == noticed[e] > 0 \/ e \in dismissed \/ e <= read

\* Types.
Mails ==
  /\ mail \in Seq(Nat) /\ Len(mail) <= MaxMessages
  /\ \A e \in Written : 1 <= mail[e] /\ mail[e] <= row

Numbers ==
  /\ row \in Nat /\ read \in Nat /\ agentId \in Nat /\ lastEventId \in Nat
  /\ acceptedEventId \in Nat /\ faults \in Nat /\ reloads \in Nat
  /\ 1 <= row /\ row <= faults + 1 /\ faults <= MaxFaults /\ agentId <= row
  /\ read <= Len(mail) /\ acceptedEventId <= lastEventId /\ lastEventId <= Len(mail)

Lists == \A e \in pending \cup batch : e \in Nat /\ 1 <= e /\ e <= lastEventId

Saved ==
  /\ file \in [agent : Nat, event : Nat]
  /\ 1 <= file.agent /\ file.agent <= row /\ file.event <= Len(mail)

Flags ==
  /\ noticed \in [Events -> Nat]
  /\ cursorLoaded \in BOOLEAN /\ scheduled \in BOOLEAN
  /\ polling \in {"idle", "inbox", "cursor"}
  /\ delivering \in {"idle", "check", "submit", "persist"}

Typed == Mails /\ Numbers /\ Lists /\ Saved /\ Flags

\* Before the cursor file was looked at, the mod knows nothing.
Blank ==
  /\ cursorLoaded => agentId # 0
  /\ ~cursorLoaded => agentId = 0 /\ lastEventId = 0 /\ polling = "idle" /\ delivering = "idle"

\* Accepted, then in the prompt, then pending.
Ordered ==
  /\ \A e \in pending : e > acceptedEventId
  /\ delivering = "submit" => \A b \in batch : b > acceptedEventId /\ \A e \in pending : e > b
  /\ delivering = "persist" => \A b \in batch : b <= acceptedEventId
  /\ delivering \in {"idle", "check"} => batch = {}

\* All that is pending or fetched is handled, and below a cursor all is done.
Kept ==
  /\ \A e \in Written : mail[e] = row => Handled(e)
  /\ \A e \in Written : mail[e] = row /\ e <= acceptedEventId => Done(e)
  /\ file.agent = row => \A e \in Written : mail[e] = row /\ e <= file.event => Done(e)

\* What may be told once more was told by no more than a load each.
Rare ==
  \A e \in Events :
    /\ noticed[e] <= 1 + reloads
    /\ e \in pending \/ e > lastEventId \/ (delivering = "submit" /\ e \in batch) => noticed[e] <= reloads

NoticeInv == Typed /\ Blank /\ Ordered /\ Kept /\ Rare

-----------------------------------------------------------------------------
\* The greatest of finitely many event ids exists.
LEMMA TopIsGreatest ==
  ASSUME NEW N \in Nat, NEW S \in SUBSET (0..N), NEW n \in 0..N
  PROVE  /\ Top(S, n) \in S \cup {n}
         /\ \A k \in S \cup {n} : k <= Top(S, n)
<1> DEFINE T == {N - k : k \in S \cup {n}}
<1>1. T \subseteq Nat /\ T # {}
  OBVIOUS
<1>2. PICK x \in T : \A y \in T : ~(<<y, x>> \in OpToRel(<, Nat))
  BY <1>1, WFMin, NatLessThanWellFounded
<1>3. \A y \in T : x <= y
  <2>1. \A i, j \in Nat : i < j => <<i, j>> \in OpToRel(<, Nat)
    BY DEF OpToRel
  <2>2. SUFFICES ASSUME NEW y \in T PROVE x <= y
    OBVIOUS
  <2>3. x \in Nat /\ y \in Nat
    BY <1>1, <1>2
  <2>4. ~(y < x)
    BY <1>2, <2>1, <2>2, <2>3
  <2>5. QED BY <2>3, <2>4
<1>4. PICK m \in S \cup {n} : x = N - m
  OBVIOUS
<1>5. \A k \in S \cup {n} : k <= m
  <2>1. SUFFICES ASSUME NEW k \in S \cup {n} PROVE k <= m
    OBVIOUS
  <2>2. N - k \in T
    OBVIOUS
  <2>3. QED BY <1>3, <1>4, <2>2
<1>6. QED BY <1>4, <1>5 DEF Top

LEMMA NoticeInit == Init => NoticeInv
<1> SUFFICES ASSUME Init PROVE NoticeInv
  OBVIOUS
<1>1. MaxMessages \in Nat /\ MaxFaults \in Nat
  BY BoundsAssumption DEF BoundsAssumption
<1>2. Mails /\ Written = {}
  <2>1. mail \in Seq(Nat) /\ Len(mail) = 0
    BY DEF Init
  <2>2. Written = {}
    BY <2>1 DEF Written
  <2>3. QED BY <1>1, <2>1, <2>2 DEF Mails
<1>3. Numbers
  BY <1>1, <1>2 DEF Init, Numbers
<1>4. Lists /\ Saved /\ Flags
  <2>1. file = [agent |-> 1, event |-> 0] /\ row = 1 /\ Len(mail) = 0
    BY DEF Init
  <2>2. Saved
    BY <2>1 DEF Saved
  <2>3. Lists /\ Flags
    BY DEF Init, Lists, Flags
  <2>4. QED BY <2>2, <2>3
<1>5. Blank /\ Ordered
  BY DEF Init, Blank, Ordered
<1>6. Kept
  BY <1>2 DEF Kept
<1>7. Rare
  BY DEF Init, Rare
<1>8. QED BY <1>2, <1>3, <1>4, <1>5, <1>6, <1>7 DEF NoticeInv, Typed

\* The mailbox only gains messages, and a replaced row has none.
LEMMA MailboxStep ==
  ASSUME NoticeInv, Write \/ GetInbox \/ ReplaceRow
  PROVE  NoticeInv'
<1> USE BoundsAssumption DEF BoundsAssumption, NoticeInv
<1>1. CASE Write
  <2>1. /\ mail' \in Seq(Nat) /\ Len(mail') = Len(mail) + 1
        /\ \A e \in Written : mail'[e] = mail[e]
        /\ mail'[Len(mail) + 1] = row
    BY <1>1 DEF Write, Typed, Mails, Numbers, Lists, Saved, Flags, Written
  <2>2. Typed'
    <3>1. Mails'
      BY <1>1, <2>1 DEF Write, Typed, Mails, Numbers, Written, cursorVars, deliverVars, historyVars
    <3>2. Numbers'
      BY <1>1, <2>1 DEF Write, Typed, Mails, Numbers, cursorVars, deliverVars, historyVars
    <3>3. Lists'
      BY <1>1, <2>1 DEF Write, Typed, Mails, Numbers, Lists, Written, cursorVars, deliverVars,
                        historyVars
    <3>4. Saved'
      BY <1>1, <2>1 DEF Write, Typed, Mails, Numbers, Saved, cursorVars, deliverVars, historyVars
    <3>5. Flags'
      BY <1>1, <2>1 DEF Write, Typed, Flags, cursorVars, deliverVars, historyVars, Events
    <3>6. QED BY <3>1, <3>2, <3>3, <3>4, <3>5 DEF Typed
  <2>3. Kept'
    <3>1. /\ {Len(mail), lastEventId, acceptedEventId, file.event} \subseteq Nat
          /\ lastEventId <= Len(mail) /\ acceptedEventId <= Len(mail) /\ file.event <= Len(mail)
      BY DEF Typed, Mails, Numbers, Saved
    <3>2. /\ UNCHANGED <<row, file, acceptedEventId, lastEventId>>
          /\ \A e : (Handled(e) => Handled(e)') /\ (Done(e) => Done(e)')
      BY <1>1 DEF Write, Handled, Done, cursorVars, deliverVars, historyVars
    <3> HIDE DEF NoticeInv
    <3>3. \A e \in Written' : \/ e \in Written /\ mail'[e] = mail[e]
                              \/ e \in Nat /\ e > Len(mail)
      BY <2>1, <3>1 DEF Written
    <3>4. ASSUME NEW e \in Nat, e > Len(mail)
          PROVE  e > lastEventId /\ ~(e <= acceptedEventId) /\ ~(e <= file.event)
      BY <3>1, <3>4
    <3>5. \A e \in Nat : e > Len(mail) => Handled(e)'
      BY <3>2, <3>4 DEF Handled
    <3>6. Kept
      BY DEF NoticeInv
    <3>7. QED BY <3>2, <3>3, <3>4, <3>5, <3>6 DEF Kept
  <2>4. Blank' /\ Ordered' /\ Rare'
    BY <1>1 DEF Write, Blank, Ordered, Rare, cursorVars, deliverVars, historyVars
  <2>5. QED BY <2>2, <2>3, <2>4
<1>2. CASE GetInbox
  <2>1. Typed'
    <3>1. Mails'
      BY <1>2 DEF GetInbox, Typed, Mails, Written, cursorVars, deliverVars, historyVars
    <3>2. Numbers'
      BY <1>2 DEF GetInbox, Typed, Mails, Numbers, cursorVars, deliverVars, historyVars
    <3>3. Lists'
      BY <1>2 DEF GetInbox, Typed, Mails, Numbers, Lists, Written, cursorVars, deliverVars, historyVars
    <3>4. Saved'
      BY <1>2 DEF GetInbox, Typed, Mails, Numbers, Saved, cursorVars, deliverVars, historyVars
    <3>5. Flags'
      BY <1>2 DEF GetInbox, Typed, Flags, cursorVars, deliverVars, historyVars, Events
    <3>6. QED BY <3>1, <3>2, <3>3, <3>4, <3>5 DEF Typed
  <2>2. Kept'
    BY <1>2 DEF GetInbox, Typed, Mails, Numbers, Kept, Handled, Done, Written, cursorVars,
                deliverVars, historyVars
  <2>3. QED BY <1>2, <2>1, <2>2 DEF GetInbox, Blank, Ordered, Rare, cursorVars, deliverVars, historyVars
<1>3. CASE ReplaceRow
  <2>1. Typed'
    <3>1. Mails'
      BY <1>3 DEF ReplaceRow, Typed, Mails, Numbers, Written
    <3>2. Numbers'
      BY <1>3 DEF ReplaceRow, Fault, Typed, Mails, Numbers, cursorVars, deliverVars, historyVars
    <3>3. Lists'
      BY <1>3 DEF ReplaceRow, Fault, Typed, Mails, Numbers, Lists, Written, cursorVars,
                  deliverVars, historyVars
    <3>4. Saved'
      BY <1>3 DEF ReplaceRow, Fault, Typed, Mails, Numbers, Saved, cursorVars, deliverVars, historyVars
    <3>5. Flags'
      BY <1>3 DEF ReplaceRow, Fault, Typed, Flags, cursorVars, deliverVars, historyVars, Events
    <3>6. QED BY <3>1, <3>2, <3>3, <3>4, <3>5 DEF Typed
  <2>2. Kept'
    BY <1>3 DEF ReplaceRow, Typed, Mails, Numbers, Kept, Written
  <2>3. QED BY <1>3, <2>1, <2>2 DEF ReplaceRow, Blank, Ordered, Rare, cursorVars, deliverVars,
                                    historyVars
<1>4. QED BY <1>1, <1>2, <1>3

\* The cursor file is taken for what is done, if it was saved for this agent.
LEMMA PollStartsStep == ASSUME NoticeInv, PollStarts PROVE NoticeInv'
<1> USE BoundsAssumption DEF BoundsAssumption, NoticeInv, PollStarts
<1>1. CASE ~cursorLoaded /\ file.agent = agentId'
  <2>1. agentId' = row /\ lastEventId = 0 /\ pending = {} /\ batch = {}
    BY <1>1 DEF Typed, Mails, Numbers, Lists, Saved, Flags, Blank
  <2>2. acceptedEventId' = file.event /\ lastEventId' = file.event
    <3>1. file.event \in Nat
      BY DEF Typed, Saved
    <3>2. /\ Top({file.event}, 0) \in {file.event, 0}
          /\ file.event <= Top({file.event}, 0) /\ 0 <= Top({file.event}, 0)
      BY <3>1, TopIsGreatest
    <3>3. Top({file.event}, 0) = file.event
      BY <3>1, <3>2
    <3>4. QED BY <1>1, <2>1, <3>3
  <2>3. Typed'
    <3>1. Mails'
      BY <2>1, <2>2 DEF Typed, Mails, Written, daemonVars, deliverVars, historyVars
    <3>2. Numbers'
      BY <2>1, <2>2 DEF Typed, Mails, Numbers, Saved, daemonVars, deliverVars, historyVars
    <3>3. Lists'
      BY <2>1, <2>2 DEF Typed, Mails, Numbers, Lists, Written, daemonVars, deliverVars, historyVars
    <3>4. Saved'
      BY <2>1, <2>2 DEF Typed, Mails, Numbers, Saved, daemonVars, deliverVars, historyVars
    <3>5. Flags'
      BY <2>1, <2>2 DEF Typed, Flags, Events, daemonVars, deliverVars, historyVars
    <3>6. QED BY <3>1, <3>2, <3>3, <3>4, <3>5 DEF Typed
  <2>4. Kept'
    BY <1>1, <2>1, <2>2 DEF Typed, Mails, Numbers, Saved, Kept, Handled, Done, Written, daemonVars,
                            deliverVars, historyVars
  <2>5. QED BY <2>1, <2>2, <2>3, <2>4 DEF Typed, Mails, Numbers, Lists, Saved, Flags, Blank,
                                          Ordered, Rare, daemonVars, deliverVars, historyVars, Events
<1>2. CASE ~(~cursorLoaded /\ file.agent = agentId')
  <2>1. UNCHANGED <<acceptedEventId, lastEventId>>
    BY <1>2
  <2>2. Typed'
    <3>1. Mails'
      BY <2>1 DEF Typed, Mails, Written, daemonVars, deliverVars, historyVars
    <3>2. Numbers'
      BY <2>1 DEF Typed, Mails, Numbers, daemonVars, deliverVars, historyVars
    <3>3. Lists'
      BY <2>1 DEF Typed, Mails, Numbers, Lists, Written, daemonVars, deliverVars, historyVars
    <3>4. Saved'
      BY <2>1 DEF Typed, Mails, Numbers, Saved, daemonVars, deliverVars, historyVars
    <3>5. Flags'
      BY <2>1 DEF Typed, Flags, Events, daemonVars, deliverVars, historyVars
    <3>6. QED BY <3>1, <3>2, <3>3, <3>4, <3>5 DEF Typed
  <2>3. Kept'
    BY <2>1 DEF Kept, Handled, Done, Written, daemonVars, deliverVars, historyVars
  <2>4. agentId' # 0 /\ cursorLoaded' /\ polling' = "inbox"
    BY DEF Typed, Numbers, Blank
  <2>5. Blank'
    BY <2>4 DEF Blank
  <2>6. Ordered' /\ Rare'
    BY <2>1 DEF Ordered, Rare, deliverVars, historyVars
  <2>7. QED BY <2>2, <2>3, <2>5, <2>6
<1>3. QED BY <1>1, <1>2

\* All that is new is pending.
LEMMA PollInboxStep == ASSUME NoticeInv, PollInbox PROVE NoticeInv'
<1> USE BoundsAssumption DEF BoundsAssumption, NoticeInv
<1> DEFINE new == {e \in Written : mail[e] = row /\ e > lastEventId}
<1>1. /\ lastEventId' \in Nat /\ lastEventId <= lastEventId' /\ lastEventId' <= Len(mail)
      /\ \A e \in new : e <= lastEventId'
  <2>1. new \in SUBSET (0..Len(mail)) /\ Len(mail) \in Nat /\ lastEventId \in 0..Len(mail)
    BY DEF Typed, Mails, Numbers, Lists, Saved, Flags, Written
  <2>2. Top(new, lastEventId) \in new \cup {lastEventId}
    BY <2>1, TopIsGreatest
  <2>3. \A k \in new \cup {lastEventId} : k <= Top(new, lastEventId)
    BY <2>1, TopIsGreatest
  <2>4. QED BY <2>1, <2>2, <2>3 DEF PollInbox
<1>2. pending' = pending \cup new
  BY DEF PollInbox
<1>3. Typed'
  <2>1. Mails'
    BY <1>1, <1>2 DEF PollInbox, Typed, Mails, Written, daemonVars, deliverVars, historyVars
  <2>2. Numbers'
    BY <1>1, <1>2 DEF PollInbox, Typed, Mails, Numbers, daemonVars, deliverVars, historyVars
  <2>3. Lists'
    <3>1. \A e \in new : e \in Nat /\ 1 <= e
      BY DEF Typed, Mails, Written
    <3>2. batch' = batch /\ lastEventId \in Nat
      BY DEF PollInbox, deliverVars, Typed, Numbers
    <3> HIDE DEF new
    <3>3. QED BY <1>1, <1>2, <3>1, <3>2 DEF Typed, Lists
  <2>4. Saved'
    BY <1>1, <1>2 DEF PollInbox, Typed, Mails, Numbers, Saved, daemonVars, deliverVars, historyVars
  <2>5. Flags'
    BY <1>1, <1>2 DEF PollInbox, Typed, Flags, Events, daemonVars, deliverVars, historyVars
  <2>6. QED BY <2>1, <2>2, <2>3, <2>4, <2>5 DEF Typed
<1>4. Kept'
  BY <1>1, <1>2 DEF PollInbox, Typed, Mails, Numbers, Kept, Handled, Done, Written, daemonVars,
                    deliverVars, historyVars
<1>5. Ordered'
  <2>1. \A e \in new : e \in Nat /\ e > lastEventId /\ e > acceptedEventId
    BY DEF Typed, Mails, Numbers, Written
  <2>2. \A b \in batch : b \in Nat /\ b <= lastEventId
    BY DEF Typed, Lists
  <2>3. UNCHANGED <<batch, delivering, acceptedEventId>>
    BY DEF PollInbox, deliverVars
  <2>4. lastEventId \in Nat
    BY DEF Typed, Numbers
  <2>5. \A e \in new, b \in batch : e > b
    BY <2>1, <2>2, <2>4
  <2> HIDE DEF new
  <2>6. QED BY <1>2, <2>1, <2>3, <2>5 DEF Ordered
<1>6. Rare'
  <2>1. UNCHANGED <<batch, delivering, noticed, reloads>>
    BY DEF PollInbox, deliverVars, historyVars
  <2>2. \A e \in new : e > lastEventId
    OBVIOUS
  <2>3. Events \subseteq Nat /\ lastEventId \in Nat
    BY DEF Typed, Numbers, Events
  <2> HIDE DEF new
  <2>4. QED BY <1>1, <1>2, <2>1, <2>2, <2>3 DEF Rare
<1>7. Blank'
  BY <1>1 DEF PollInbox, Typed, Numbers, Blank, daemonVars, deliverVars, historyVars
<1>8. QED BY <1>3, <1>4, <1>5, <1>6, <1>7

\* A fault alone keeps the numbers in their ranges.
LEMMA NumbersFrame ==
  ASSUME Mails, Numbers, UNCHANGED <<daemonVars, cursorVars, reloads>>,
         faults' \in Nat, faults <= faults', faults' <= MaxFaults
  PROVE  Numbers'
<1>1. UNCHANGED <<mail, row, read, agentId, lastEventId, acceptedEventId, reloads>>
  BY DEF daemonVars, cursorVars
<1>2. row \in Nat /\ faults \in Nat /\ row <= faults + 1
  BY DEF Numbers
<1>3. row' <= faults' + 1
  <2>1. ASSUME NEW f \in Nat, NEW g \in Nat, f <= g, NEW r \in Nat, r <= f + 1
        PROVE  r <= g + 1
    BY <2>1
  <2>2. row' = row /\ faults' \in Nat /\ faults <= faults'
    BY <1>1
  <2>3. QED BY <1>2, <2>1, <2>2
<1>4. /\ row' \in Nat /\ read' \in Nat /\ agentId' \in Nat /\ lastEventId' \in Nat
      /\ acceptedEventId' \in Nat /\ reloads' \in Nat /\ 1 <= row' /\ agentId' <= row'
      /\ read' <= Len(mail') /\ acceptedEventId' <= lastEventId' /\ lastEventId' <= Len(mail')
  BY <1>1 DEF Numbers
<1>5. QED BY <1>3, <1>4 DEF Numbers

\* What the agent has read meanwhile is no longer pending.
LEMMA PollEndsStep == ASSUME NoticeInv, PollCursor \/ PollFails PROVE NoticeInv'
<1> USE BoundsAssumption DEF BoundsAssumption, NoticeInv
<1>1. /\ UNCHANGED <<daemonVars, cursorVars, deliverVars, file, reloads, historyVars>>
      /\ polling' = "idle" /\ scheduled' \in BOOLEAN
      /\ pending' \subseteq pending
      /\ faults' \in Nat /\ faults <= faults' /\ faults' <= MaxFaults
      /\ \A e \in pending : e \in pending' \/ e <= read
  <2> scheduled' \in BOOLEAN
    BY DEF PollCursor, PollFails, Schedules
  <2>1. CASE PollFails
    <3>1. faults' \in Nat /\ faults <= faults' /\ faults' <= MaxFaults
      BY <2>1 DEF PollFails, Fault, Typed, Numbers
    <3>2. QED BY <2>1, <3>1 DEF PollFails
  <2>2. CASE PollCursor
    <3>1. pending' \subseteq pending /\ (\A e \in pending : e \in pending' \/ e <= read)
      BY <2>2 DEF PollCursor, Unread, Typed, Mails, Numbers, Lists, Saved, Flags
    <3>2. faults' \in Nat /\ faults <= faults' /\ faults' <= MaxFaults
      BY <2>2 DEF PollCursor, Unread, Fault, Typed, Mails, Numbers, Lists, Saved, Flags
    <3>3. QED BY <2>2, <3>1, <3>2 DEF PollCursor
  <2>3. QED BY <2>1, <2>2
<1>2. Typed'
  <2>1. Mails'
    BY <1>1 DEF Typed, Mails, Written, daemonVars, cursorVars, deliverVars, historyVars
  <2>2. Numbers'
    BY <1>1, NumbersFrame DEF Typed
  <2>3. Lists'
    BY <1>1 DEF Typed, Mails, Numbers, Lists, Written, daemonVars, cursorVars, deliverVars, historyVars
  <2>4. Saved'
    BY <1>1 DEF Typed, Mails, Numbers, Saved, daemonVars, cursorVars, deliverVars, historyVars
  <2>5. Flags'
    BY <1>1 DEF Typed, Flags, Events, daemonVars, cursorVars, deliverVars, historyVars
  <2>6. QED BY <2>1, <2>2, <2>3, <2>4, <2>5 DEF Typed
<1>3. Kept'
  BY <1>1 DEF Typed, Mails, Numbers, Kept, Handled, Done, Written, daemonVars, cursorVars,
              deliverVars, historyVars
<1>4. QED BY <1>1, <1>2, <1>3 DEF Blank, Ordered, Rare, daemonVars, cursorVars, deliverVars, historyVars

LEMMA DueStep == ASSUME NoticeInv, Due PROVE NoticeInv'
<1> USE BoundsAssumption DEF BoundsAssumption, NoticeInv
<1>1. /\ UNCHANGED <<daemonVars, cursorVars, pending, polling, batch, file, faults, reloads, historyVars>>
      /\ scheduled' \in BOOLEAN
      /\ delivering' = delivering \/ (delivering = "idle" /\ delivering' = "check")
  BY DEF Due
<1>2. Typed'
  <2>1. Mails'
    BY <1>1 DEF Typed, Mails, Written, daemonVars, cursorVars, historyVars
  <2>2. Numbers'
    BY <1>1, NumbersFrame DEF Typed, Numbers
  <2>3. Lists'
    BY <1>1 DEF Typed, Mails, Numbers, Lists, Written, daemonVars, cursorVars, historyVars
  <2>4. Saved'
    BY <1>1 DEF Typed, Mails, Numbers, Saved, daemonVars, cursorVars, historyVars
  <2>5. Flags'
    BY <1>1 DEF Typed, Flags, Events, daemonVars, cursorVars, historyVars
  <2>6. QED BY <2>1, <2>2, <2>3, <2>4, <2>5 DEF Typed
<1>3. Kept'
  BY <1>1 DEF Kept, Handled, Done, Written, daemonVars, cursorVars, historyVars
<1>4. Blank'
  BY DEF Due, Blank, cursorVars, Typed, Numbers, Lists
<1>5. Ordered' /\ Rare'
  BY <1>1 DEF Ordered, Rare, cursorVars, historyVars
<1>6. QED BY <1>2, <1>3, <1>4, <1>5

\* The prompt is all that was pending, but for what was read.
LEMMA CheckedStep == ASSUME NoticeInv, Checked PROVE NoticeInv'
<1> USE BoundsAssumption DEF BoundsAssumption, NoticeInv
<1>1. /\ UNCHANGED <<daemonVars, cursorVars, polling, scheduled, file, reloads, historyVars>>
      /\ delivering' = IF batch' = {} THEN "idle" ELSE "submit"
      /\ batch = {} /\ pending' = {} /\ batch' \subseteq pending
      /\ faults' \in Nat /\ faults <= faults' /\ faults' <= MaxFaults
      /\ \A e \in pending : e \in batch' \/ e <= read
  <2>1. PICK left \in SUBSET pending :
          /\ \/ /\ agentId = row /\ UNCHANGED faults
                /\ \E cursor \in asked.deliver..read : left = {e \in pending : e > cursor}
             \/ /\ agentId = row => Fault
                /\ agentId # row => UNCHANGED faults
                /\ left = pending
          /\ batch' = left
          /\ delivering' = IF left = {} THEN "idle" ELSE "submit"
    BY DEF Checked
  <2>2. faults' \in Nat /\ faults <= faults' /\ faults' <= MaxFaults
    BY <2>1 DEF Fault, Typed, Numbers
  <2>3. \A e \in pending : e \in left \/ e <= read
    <3>1. \A e \in pending : e \in Nat
      BY DEF Typed, Lists
    <3>2. read \in Nat
      BY DEF Typed, Numbers
    <3>3. QED BY <2>1, <3>1, <3>2
  <2>4. QED BY <2>1, <2>2, <2>3 DEF Checked, Ordered
<1>2. Typed'
  <2>1. Mails'
    BY <1>1 DEF Typed, Mails, Written, daemonVars, cursorVars, historyVars
  <2>2. Numbers'
    BY <1>1, NumbersFrame DEF Typed
  <2>3. Lists'
    BY <1>1 DEF Typed, Mails, Numbers, Lists, Written, daemonVars, cursorVars, historyVars
  <2>4. Saved'
    BY <1>1 DEF Typed, Mails, Numbers, Saved, daemonVars, cursorVars, historyVars
  <2>5. Flags'
    BY <1>1 DEF Typed, Flags, Events, daemonVars, cursorVars, historyVars
  <2>6. QED BY <2>1, <2>2, <2>3, <2>4, <2>5 DEF Typed
<1>3. Kept'
  BY <1>1 DEF Typed, Mails, Numbers, Kept, Handled, Done, Written, daemonVars, cursorVars, historyVars
<1>4. Rare'
  BY <1>1 DEF Rare, daemonVars, cursorVars, historyVars
<1>5. Blank'
  BY <1>1 DEF Checked, Blank, cursorVars
<1>6. Ordered'
  BY <1>1 DEF Ordered, cursorVars
<1>7. QED BY <1>2, <1>3, <1>4, <1>5, <1>6

\* Claude is told; what is pending lies above, so nothing is skipped.
LEMMA AcceptedStep == ASSUME NoticeInv, Accepted PROVE NoticeInv'
<1> USE BoundsAssumption DEF BoundsAssumption, NoticeInv
<1>1. /\ acceptedEventId' \in batch \cup {acceptedEventId}
      /\ acceptedEventId' \in Nat /\ acceptedEventId <= acceptedEventId' /\ acceptedEventId' <= lastEventId
      /\ \A b \in batch : b <= acceptedEventId'
  <2>1. batch \in SUBSET (0..Len(mail)) /\ Len(mail) \in Nat /\ acceptedEventId \in 0..Len(mail)
    BY DEF Typed, Mails, Numbers, Lists, Saved, Flags
  <2>2. Top(batch, acceptedEventId) \in batch \cup {acceptedEventId}
    BY <2>1, TopIsGreatest
  <2>3. \A k \in batch \cup {acceptedEventId} : k <= Top(batch, acceptedEventId)
    BY <2>1, TopIsGreatest
  <2>4. QED BY <2>1, <2>2, <2>3 DEF Accepted, Typed, Mails, Numbers, Lists, Saved, Flags
<1>2. /\ noticed' \in [Events -> Nat]
      /\ \A e \in Events : noticed'[e] = IF e \in batch THEN noticed[e] + 1 ELSE noticed[e]
  BY DEF Accepted, Typed, Flags
<1>3. /\ UNCHANGED <<daemonVars, agentId, lastEventId, cursorLoaded, pending, polling, batch, scheduled, file,
                     faults, reloads, dismissed>>
      /\ delivering = "submit" /\ delivering' = "persist"
  BY DEF Accepted
<1>4. Typed'
  <2>1. Mails'
    BY <1>1, <1>2, <1>3 DEF Typed, Mails, Written, daemonVars
  <2>2. Numbers'
    BY <1>1, <1>2, <1>3 DEF Typed, Mails, Numbers, daemonVars
  <2>3. Lists'
    BY <1>1, <1>2, <1>3 DEF Typed, Mails, Numbers, Lists, Written, daemonVars
  <2>4. Saved'
    BY <1>1, <1>2, <1>3 DEF Typed, Mails, Numbers, Saved, daemonVars
  <2>5. Flags'
    BY <1>1, <1>2, <1>3 DEF Typed, Flags, daemonVars, Events
  <2>6. QED BY <2>1, <2>2, <2>3, <2>4, <2>5 DEF Typed
<1>5. Ordered'
  BY <1>1, <1>3 DEF Ordered, Typed, Mails, Numbers, Lists, Saved, Flags
<1>6. Rare'
  <2>1. \A e \in batch : e \in Nat /\ e <= lastEventId /\ e \notin pending
    BY <1>3 DEF Ordered, Typed, Lists
  <2>2. lastEventId \in Nat /\ reloads \in Nat /\ noticed \in [Events -> Nat]
    BY DEF Typed, Numbers, Flags
  <2>3. QED BY <1>2, <1>3, <2>1, <2>2 DEF Rare
<1>7. \A e \in Written : Done(e) => Done(e)'
  <2>1. Written \subseteq Events
    BY DEF Typed, Mails, Written, Events
  <2>2. \A e \in Events : noticed[e] > 0 => noticed'[e] > 0
    BY <1>2 DEF Typed, Flags
  <2>3. read' = read
    BY <1>3 DEF daemonVars
  <2>4. QED BY <1>3, <2>1, <2>2, <2>3 DEF Done
<1>8. ASSUME NEW e \in Written, mail[e] = row
      PROVE  Handled(e)' /\ (e <= acceptedEventId' => Done(e)')
  <2>1. e \in Events
    BY DEF Written, Events, Typed, Mails, Numbers, Lists, Saved, Flags
  <2>2. Handled(e)'
    BY <1>2, <1>3, <1>8, <2>1 DEF Kept, Handled, Typed, Mails, Numbers, Lists, Saved, Flags, daemonVars
  <2>3. ASSUME e <= acceptedEventId' PROVE Done(e)'
    <3>1. CASE e <= acceptedEventId
      BY <1>8, <3>1, <1>7 DEF Kept
    <3>2. CASE ~(e <= acceptedEventId)
      <4>1. e \notin pending /\ ~(e > lastEventId)
        <5>1. e \in Nat /\ acceptedEventId \in Nat /\ acceptedEventId' \in Nat /\ lastEventId \in Nat
          BY <1>1 DEF Typed, Mails, Numbers, Written
        <5>2. acceptedEventId' \in batch /\ e <= lastEventId
          BY <1>1, <2>3, <3>2, <5>1
        <5>3. QED BY <1>3, <2>3, <5>1, <5>2 DEF Ordered, Typed, Lists
      <4>2. e \in batch \/ Done(e)
        BY <1>8, <4>1 DEF Kept, Handled, Done
      <4>3. e \in batch => noticed'[e] > 0
        BY <1>2, <2>1 DEF Typed, Flags
      <4>4. QED BY <1>7, <4>2, <4>3 DEF Done
    <3>3. QED BY <3>1, <3>2
  <2>4. QED BY <2>2, <2>3
<1>9. Kept'
  <2>1. Written' = Written /\ row' = row /\ mail' = mail /\ file' = file
    BY <1>3 DEF Written, daemonVars
  <2>2. QED BY <1>8, <1>7, <2>1 DEF Kept
<1>10. QED BY <1>3, <1>4, <1>5, <1>6, <1>9 DEF Blank

\* A refused batch is pending again.
LEMMA RefusedStep == ASSUME NoticeInv, Refused PROVE NoticeInv'
<1> USE BoundsAssumption DEF BoundsAssumption, NoticeInv
<1>1. Typed'
  <2>1. Mails'
    BY DEF Refused, Fault, Typed, Mails, Written, daemonVars, cursorVars, historyVars
  <2>2. Numbers'
    BY DEF Refused, Fault, Typed, Mails, Numbers, daemonVars, cursorVars, historyVars
  <2>3. Lists'
    BY DEF Refused, Fault, Typed, Mails, Numbers, Lists, Written, daemonVars, cursorVars, historyVars
  <2>4. Saved'
    BY DEF Refused, Fault, Typed, Mails, Numbers, Saved, daemonVars, cursorVars, historyVars
  <2>5. Flags'
    BY DEF Refused, Fault, Typed, Flags, Events, daemonVars, cursorVars, historyVars
  <2>6. QED BY <2>1, <2>2, <2>3, <2>4, <2>5 DEF Typed
<1>2. Kept'
  BY DEF Refused, Kept, Handled, Done, Written, daemonVars, cursorVars, historyVars
<1>3. QED BY <1>1, <1>2 DEF Refused, Blank, Ordered, Rare, daemonVars, cursorVars, historyVars

\* The file is given what was accepted.
LEMMA PersistedStep == ASSUME NoticeInv, Persisted PROVE NoticeInv'
<1> USE BoundsAssumption DEF BoundsAssumption, NoticeInv
<1>1. /\ UNCHANGED <<daemonVars, cursorVars, pending, polling, scheduled, reloads, historyVars>>
      /\ delivering = "persist" /\ delivering' = "idle" /\ batch' = {}
      /\ faults' \in Nat /\ faults <= faults' /\ faults' <= MaxFaults
  BY DEF Persisted, Fault, Typed, Mails, Numbers, Lists, Saved, Flags
<1>2. /\ file' \in [agent : Nat, event : Nat] /\ 1 <= file'.agent /\ file'.agent <= row
      /\ file'.event = acceptedEventId \/ file' = file
  BY DEF Persisted, Typed, Mails, Numbers, Lists, Saved, Flags, Blank, Fault
<1>3. \A e \in batch : e \in Written /\ e <= acceptedEventId
  BY <1>1 DEF Ordered, Typed, Mails, Numbers, Lists, Saved, Flags, Written
<1>4. Typed'
  <2>1. Mails'
    BY <1>1, <1>2 DEF Typed, Mails, Written, daemonVars, cursorVars, historyVars
  <2>2. Numbers'
    BY <1>1, NumbersFrame DEF Typed
  <2>3. Lists'
    BY <1>1, <1>2 DEF Typed, Mails, Numbers, Lists, Written, daemonVars, cursorVars, historyVars
  <2>4. Saved'
    BY <1>1, <1>2 DEF Typed, Mails, Numbers, Saved, daemonVars, cursorVars, historyVars
  <2>5. Flags'
    BY <1>1, <1>2 DEF Typed, Flags, Events, daemonVars, cursorVars, historyVars
  <2>6. QED BY <2>1, <2>2, <2>3, <2>4, <2>5 DEF Typed
<1>5. \A e \in Written : mail[e] = row => Handled(e)'
  BY <1>1, <1>3 DEF Kept, Handled, Done, daemonVars, cursorVars, historyVars
<1>6. \A e \in Written : Done(e)' <=> Done(e)
  BY <1>1 DEF Done, daemonVars, historyVars
<1>7. Kept'
  BY <1>1, <1>2, <1>5, <1>6 DEF Kept, Written, daemonVars, cursorVars
<1>8. QED BY <1>1, <1>4, <1>7 DEF Blank, Ordered, Rare, daemonVars, cursorVars, historyVars

LEMMA DismissStep == ASSUME NoticeInv, Dismiss PROVE NoticeInv'
<1> USE BoundsAssumption DEF BoundsAssumption, NoticeInv
<1>1. Typed'
  <2>1. Mails'
    BY DEF Dismiss, Typed, Mails, Written, daemonVars, cursorVars, deliverVars
  <2>2. Numbers'
    BY DEF Dismiss, Typed, Mails, Numbers, daemonVars, cursorVars, deliverVars
  <2>3. Lists'
    BY DEF Dismiss, Typed, Mails, Numbers, Lists, Written, daemonVars, cursorVars, deliverVars
  <2>4. Saved'
    BY DEF Dismiss, Typed, Mails, Numbers, Saved, daemonVars, cursorVars, deliverVars
  <2>5. Flags'
    BY DEF Dismiss, Typed, Flags, Events, daemonVars, cursorVars, deliverVars
  <2>6. QED BY <2>1, <2>2, <2>3, <2>4, <2>5 DEF Typed
<1>2. Kept'
  BY DEF Dismiss, Kept, Handled, Done, Written, daemonVars, cursorVars, deliverVars
<1>3. QED BY <1>1, <1>2 DEF Dismiss, Blank, Ordered, Rare, daemonVars, cursorVars, deliverVars

\* A new load knows nothing, and may tell all once more.
LEMMA ReloadStep == ASSUME NoticeInv, Reload PROVE NoticeInv'
<1> USE BoundsAssumption DEF BoundsAssumption, NoticeInv
<1>1. /\ noticed' \in [Events -> Nat]
      /\ \A e \in Events : noticed'[e] >= noticed[e] /\ noticed'[e] <= reloads + 1
  <2>1. CASE noticed' = noticed
    BY <2>1 DEF Typed, Mails, Numbers, Lists, Saved, Flags, Rare
  <2>2. CASE /\ delivering = "submit"
             /\ noticed' = [e \in Events |-> IF e \in batch THEN noticed[e] + 1 ELSE noticed[e]]
    <3>1. noticed \in [Events -> Nat] /\ reloads \in Nat
      BY DEF Typed, Numbers, Flags
    <3>2. QED BY <2>2, <3>1 DEF Rare
  <2>3. QED BY <2>1, <2>2 DEF Reload
<1>2. /\ UNCHANGED <<mail, row, read, file, dismissed>>
      /\ agentId' = 0 /\ lastEventId' = 0 /\ acceptedEventId' = 0 /\ cursorLoaded' = FALSE
      /\ pending' = {} /\ polling' = "idle" /\ delivering' = "idle" /\ batch' = {} /\ scheduled' = FALSE
      /\ faults' = faults + 1 /\ faults < MaxFaults /\ reloads' = reloads + 1
  BY DEF Reload, Fault, daemonVars
<1>3. Typed'
  <2>1. Mails'
    BY <1>1, <1>2 DEF Typed, Mails, Written
  <2>2. Numbers'
    BY <1>1, <1>2 DEF Typed, Mails, Numbers
  <2>3. Lists'
    BY <1>1, <1>2 DEF Typed, Mails, Numbers, Lists, Written
  <2>4. Saved'
    BY <1>1, <1>2 DEF Typed, Mails, Numbers, Saved
  <2>5. Flags'
    BY <1>1, <1>2 DEF Typed, Flags
  <2>6. QED BY <2>1, <2>2, <2>3, <2>4, <2>5 DEF Typed
<1>4. \A e \in Written : Done(e) => Done(e)'
  <2>1. Written \subseteq Events
    BY DEF Typed, Mails, Written, Events
  <2>2. \A e \in Events : noticed[e] > 0 => noticed'[e] > 0
    BY <1>1 DEF Typed, Flags
  <2>3. QED BY <1>2, <2>1, <2>2 DEF Done
<1>5. Kept'
  <2>1. Written' = Written
    BY <1>2 DEF Written
  <2>2. \A e \in Written : e \in Nat /\ e > 0
    BY DEF Written, Typed, Mails, Numbers, Lists, Saved, Flags
  <2>3. QED BY <1>2, <1>4, <2>1, <2>2 DEF Kept, Handled
<1>6. Rare'
  <2>1. reloads' \in Nat /\ noticed' \in [Events -> Nat]
    BY <1>1, <1>2 DEF Typed, Numbers
  <2>2. \A e \in Events : noticed'[e] <= reloads'
    BY <1>1, <1>2
  <2> HIDE DEF NoticeInv
  <2>3. \A e \in Events : noticed'[e] <= 1 + reloads'
    BY <2>1, <2>2
  <2>4. QED BY <2>2, <2>3 DEF Rare
<1>7. QED BY <1>2, <1>3, <1>5, <1>6 DEF Blank, Ordered

LEMMA NoticeStep == NoticeInv /\ [Next]_vars => NoticeInv'
<1> SUFFICES ASSUME NoticeInv, [Next]_vars PROVE NoticeInv'
  OBVIOUS
<1>1. CASE Write \/ GetInbox \/ ReplaceRow
  BY <1>1, MailboxStep
<1>2. CASE Poll
  BY <1>2, PollStartsStep, PollInboxStep, PollEndsStep DEF Poll
<1>3. CASE Due
  BY <1>3, DueStep
<1>4. CASE Deliver
  BY <1>4, CheckedStep, AcceptedStep, RefusedStep, PersistedStep DEF Deliver
<1>5. CASE Dismiss \/ Reload
  BY <1>5, DismissStep, ReloadStep
<1>6. CASE UNCHANGED vars
  BY <1>6 DEF vars, daemonVars, cursorVars, deliverVars, historyVars, NoticeInv, Typed, Mails,
              Numbers, Lists, Saved, Flags, Blank, Ordered,
              Kept, Handled, Done, Written, Rare, Events
<1>7. QED BY <1>1, <1>2, <1>3, <1>4, <1>5, <1>6 DEF Next

\* The invariant of notices: what is pending, in the prompt and accepted is in the
\* order of event ids, and below what is accepted or saved nothing is left to tell.
THEOREM NoticeInvariant == Spec => []NoticeInv
<1>1. Init => NoticeInv
  BY NoticeInit
<1>2. NoticeInv /\ [Next]_vars => NoticeInv'
  BY NoticeStep
<1>3. QED BY <1>1, <1>2, PTL DEF Spec

\* Types; what Claude accepted was fetched (acceptedEventId and lastEventId of the mod).
THEOREM NoticeTypeCorrect == Spec => []TypeOK
<1>1. NoticeInv => TypeOK
  <2> SUFFICES ASSUME NoticeInv PROVE TypeOK
    OBVIOUS
  <2>1. MaxMessages \in Nat /\ MaxFaults \in Nat
    BY BoundsAssumption DEF BoundsAssumption
  <2>2. Len(mail) \in Nat /\ Len(mail) <= MaxMessages
    BY DEF NoticeInv, Typed, Mails
  <2>3. \A e \in Written : mail[e] \in 1..row
    BY DEF NoticeInv, Typed, Mails, Numbers, Written
  <2>4. /\ row \in 1..(MaxFaults + 1) /\ read \in 0..Len(mail) /\ agentId \in 0..row
        /\ lastEventId \in 0..Len(mail) /\ acceptedEventId \in 0..lastEventId
    BY <2>1, <2>2 DEF NoticeInv, Typed, Numbers
  <2>5. pending \subseteq 1..lastEventId /\ batch \subseteq 1..lastEventId
    BY <2>4 DEF NoticeInv, Typed, Lists
  <2>6. file.agent \in 1..row /\ file.event \in 0..Len(mail)
    BY <2>2, <2>4 DEF NoticeInv, Typed, Saved
  <2>7. file \in [agent : 1..row, event : 0..Len(mail)]
    BY <2>6 DEF NoticeInv, Typed, Saved
  <2>8. QED BY <2>2, <2>3, <2>4, <2>5, <2>7 DEF NoticeInv, Typed, Flags, TypeOK
<1>2. QED BY <1>1, NoticeInvariant, PTL

\* No message to the agent is skipped, whatever is refused, dismissed, reloaded or
\* read meanwhile (poll, deliver and loadAcceptedCursor together).
THEOREM NoticesAreNotLost == Spec => []NoNoticeLost
<1>1. NoticeInv => NoNoticeLost
  BY DEF NoticeInv, Kept, NoNoticeLost
<1>2. QED BY <1>1, NoticeInvariant, PTL

\* Claude is told of a message at most once per load of the mod, though prompts are
\* refused and the cursor file cannot be written (deliver).
THEOREM NoticesRepeatByReload == Spec => []NoticedAgainOnlyByReload
<1>1. NoticeInv => NoticedAgainOnlyByReload
  BY DEF NoticeInv, Rare, NoticedAgainOnlyByReload
<1>2. QED BY <1>1, NoticeInvariant, PTL
=============================================================================
