--------------------------- MODULE Agents_proofs ---------------------------
(***************************************************************************)
(* Theorems about the agents table of module Registry, the mailboxes of    *)
(* module Mailbox and the plugins of module Plugins that register agents   *)
(* in the table, for any names, session keys, roles, requests and any      *)
(* number of rows, messages, plugins and sessions.                         *)
(*                                                                         *)
(* OneMailboxPerSession and OfflineIsRetained are not inductive alone.     *)
(* RegistryInv adds that a row with a Claude key is a Claude row (so       *)
(* register's lookup finds it whatever the mode), that a name without a    *)
(* row holds nothing, and that ids are fresh and unique.                   *)
(*                                                                         *)
(* MailInv adds to the properties what makes them inductive: agent_ids are *)
(* fresh and never reused (RegistryInv), so no message is addressed to the *)
(* row that the next INSERT writes; a cursor is never behind the one its   *)
(* row was inserted with; what a default read handed out lies between the  *)
(* two; and only agents with a row have been handed anything.              *)
(*                                                                         *)
(* PluginsInv adds to the properties of the plugins that the requests of a *)
(* v2 plugin under way match its sessions, and that each row the daemon    *)
(* gave it is accounted for.                                               *)
(***************************************************************************)
EXTENDS Mailbox, Plugins, TLAPS, SequenceTheorems

-----------------------------------------------------------------------------
(* The agents table *)

ClaudeKeysAreClaude ==
  \A n \in Names : agents[n].key \in ClaudeKeys => agents[n].kind = "claude-code"

IdsAreFresh == \A n \in Names : agents[n].id < nextId

IdsAreUnique ==
  \A m, n \in Names : Exists(m) /\ agents[m].id = agents[n].id => m = n

RegistryInv ==
  /\ TableOK
  /\ ClaudeKeysAreClaude
  /\ AbsentIsBlank
  /\ IdsAreFresh
  /\ IdsAreUnique
  /\ OneMailboxPerSession
  /\ OfflineIsRetained

-----------------------------------------------------------------------------
(* What one row is, before and after the operators that rewrite it.        *)

\* A blank row is well formed.
LEMMA AbsentIsRow == Absent \in Row /\ Absent.key = None /\ Absent.offline = "no"
BY DEF Absent, Row, Kinds

\* INSERT and the ON CONFLICT update write well-formed rows; the update keeps
\* the agent_id.
LEMMA RegisterWritesRows ==
  ASSUME TableOK, NEW q \in Requests, NEW n \in Names
  PROVE  /\ Inserted(q) \in Row
         /\ Updated(agents[n], q) \in Row
         /\ Updated(agents[n], q).id = agents[n].id
<1>1. q \in Request
  BY RequestsAssumption
<1>2. agents[n] \in Row /\ nextId \in Nat
  BY MaxAgentsAssumption DEF TableOK, AgentIds
<1>3. Inserted(q) \in Row
  BY <1>1, <1>2 DEF Inserted, Row, Request
<1>4. Updated(agents[n], q) \in Row /\ Updated(agents[n], q).id = agents[n].id
  BY <1>1, <1>2 DEF Updated, Row, Request
<1>5. QED BY <1>3, <1>4

\* Whatever name register settles on, the row is absent, the caller's own, or
\* one that is neither retained nor (for a keyed caller) live.  A Claude
\* session that owns a row always settles on that row.
LEMMA RegisterTargets ==
  ASSUME RegistryInv, NEW q \in Requests, Register(q)
  PROVE  \E n \in Names :
           /\ WriteRow(n, q)
           /\ Exists(n) /\ Retained(agents[n]) => SameSession(agents[n], q)
           /\ Exists(n) /\ agents[n].live /\ q.key # None => SameSession(agents[n], q)
           /\ \A m \in Names :
                q.key \in ClaudeKeys /\ Exists(m) /\ agents[m].key = q.key => m = n
<1>1. q \in Request /\ (q.key \in ClaudeKeys => q.kind = "claude-code")
  BY RequestsAssumption
<1>2. PICK t \in Targets(q) :
        \/ ~Conflict(t, q) /\ WriteRow(t, q)
        \/ Conflict(t, q) /\ q.mode = "prefer" /\ \E m \in Allocated(q) : WriteRow(m, q)
  BY DEF Register
<1>3. t \in Names
  BY <1>1 DEF Targets, Owned, Request
<1>4. ASSUME NEW m \in Names, q.key \in ClaudeKeys, Exists(m), agents[m].key = q.key
      PROVE  m = t /\ ~Conflict(t, q)
  <2>1. q.key # None
    BY <1>4, KeysAssumption DEF Keys
  <2>2. m \in Owned(q)
    BY <1>1, <1>4, <2>1 DEF Owned, RegistryInv, ClaudeKeysAreClaude
  <2>3. t \in Owned(q)
    BY <2>2 DEF Targets
  <2>4. agents[t].key = agents[m].key
    BY <1>4, <2>3 DEF Owned
  <2>5. m = t
    BY <1>3, <1>4, <2>4 DEF RegistryInv, OneMailboxPerSession
  <2>6. SameSession(agents[t], q)
    BY <1>1, <1>4, <2>1, <2>5 DEF SameSession
  <2>7. QED BY <2>5, <2>6 DEF Conflict
<1>5. CASE ~Conflict(t, q) /\ WriteRow(t, q)
  BY <1>3, <1>4, <1>5 DEF Conflict
<1>6. CASE Conflict(t, q) /\ \E m \in Allocated(q) : WriteRow(m, q)
  <2>1. PICK m \in Allocated(q) : WriteRow(m, q)
    BY <1>6
  <2>2. m \in Names /\ Usable(m, q)
    <3>1. Candidates[q.name] \in Seq(Names)
      BY <1>1, NamesAssumption DEF Request
    <3>2. QED BY <3>1, NamesAssumption DEF Allocated, Usable
  <2>3. \A k \in Names : ~(q.key \in ClaudeKeys /\ Exists(k) /\ agents[k].key = q.key)
    BY <1>4, <1>6
  <2>4. QED BY <2>1, <2>2, <2>3 DEF Usable
<1>7. QED BY <1>2, <1>5, <1>6

\* Registering keeps the table in order.
LEMMA RegisterKeepsInv ==
  ASSUME RegistryInv, NEW q \in Requests, Register(q)
  PROVE  RegistryInv'
<1>1. PICK n \in Names :
        /\ WriteRow(n, q)
        /\ Exists(n) /\ Retained(agents[n]) => SameSession(agents[n], q)
        /\ \A m \in Names :
             q.key \in ClaudeKeys /\ Exists(m) /\ agents[m].key = q.key => m = n
  BY RegisterTargets
<1>2. q \in Request /\ (q.key \in ClaudeKeys => q.kind = "claude-code")
               /\ (q.key \in OtherKeys => q.kind = "other")
  BY RequestsAssumption
<1>3. agents \in [Names -> Row] /\ nextId \in 1 .. MaxAgents + 1 /\ MaxAgents \in Nat
  BY MaxAgentsAssumption DEF RegistryInv, TableOK
<1>4. CASE Exists(n)
  <2>1. agents' = [agents EXCEPT ![n] = Updated(agents[n], q)] /\ nextId' = nextId
    BY <1>1, <1>4 DEF WriteRow
  <2>2. Updated(agents[n], q) \in Row /\ Updated(agents[n], q).id = agents[n].id
    BY RegisterWritesRows DEF RegistryInv
  <2>3. TableOK'
    BY <1>3, <2>1, <2>2 DEF TableOK
  <2>4. \A m \in Names : agents'[m].id = agents[m].id
    BY <1>3, <2>1, <2>2
  <2>5. AbsentIsBlank' /\ IdsAreFresh' /\ IdsAreUnique'
    BY <1>3, <1>4, <2>1, <2>4 DEF RegistryInv, AbsentIsBlank, IdsAreFresh, IdsAreUnique, Exists
  <2>6. agents'[n].key = (IF q.key # None THEN q.key ELSE agents[n].key)
        /\ agents'[n].kind = q.kind
        /\ agents'[n].offline = (IF q.kind = "claude-code" /\ q.key # None
                                 THEN "no" ELSE agents[n].offline)
    BY <1>3, <2>1 DEF Updated, Row
  <2>7. \A m \in Names \ {n} : agents'[m] = agents[m]
    BY <1>3, <2>1
  <2>8. agents[n].key \in ClaudeKeys => SameSession(agents[n], q)
    BY <1>1, <1>4, KeysAssumption
       DEF RegistryInv, ClaudeKeysAreClaude, Retained, Keys
  <2>9. ClaudeKeysAreClaude'
    BY <1>2, <2>6, <2>7, <2>8 DEF RegistryInv, ClaudeKeysAreClaude, SameSession
  <2>10. OneMailboxPerSession'
    <3>1. ASSUME NEW m \in Names \ {n}, agents'[m].key = agents'[n].key,
                 agents'[n].key \in ClaudeKeys
          PROVE  FALSE
      <4>1. CASE q.key # None
        <5>1. agents[m].key = q.key /\ q.key \in ClaudeKeys
          BY <2>6, <2>7, <3>1, <4>1
        <5>2. Exists(m)
          BY <5>1, AbsentIsRow, KeysAssumption DEF RegistryInv, AbsentIsBlank, Keys
        <5>3. QED BY <1>1, <5>1, <5>2
      <4>2. CASE q.key = None
        BY <2>6, <2>7, <3>1, <4>2 DEF RegistryInv, OneMailboxPerSession
      <4>3. QED BY <4>1, <4>2
    <3>2. QED BY <2>7, <3>1 DEF RegistryInv, OneMailboxPerSession
  <2>11. OfflineIsRetained'
    <3>1. agents'[n].offline # "no" => Retained(agents'[n])
      <4>1. SUFFICES ASSUME agents'[n].offline # "no"
                     PROVE  Retained(agents'[n])
        OBVIOUS
      <4>2. agents[n].offline # "no"
        BY <2>6, <4>1
      <4>3. SameSession(agents[n], q) /\ agents[n].kind = "claude-code"
        BY <1>1, <1>4, <4>2 DEF RegistryInv, OfflineIsRetained, Retained
      <4>4. QED BY <2>6, <4>1, <4>3 DEF SameSession
    <3>2. QED BY <2>7, <3>1 DEF RegistryInv, OfflineIsRetained
  <2>12. QED BY <2>3, <2>5, <2>9, <2>10, <2>11 DEF RegistryInv
<1>5. CASE ~Exists(n)
  <2>1. agents' = [agents EXCEPT ![n] = Inserted(q)] /\ nextId' = nextId + 1 /\ nextId <= MaxAgents
    BY <1>1, <1>5 DEF WriteRow
  <2>2. Inserted(q) \in Row
    BY RegisterWritesRows DEF RegistryInv
  <2>3. TableOK'
    BY <1>3, <2>1, <2>2 DEF TableOK
  <2>4. /\ agents'[n].id = nextId /\ agents'[n].key = q.key
        /\ agents'[n].kind = q.kind /\ agents'[n].offline = "no"
    BY <1>3, <2>1 DEF Inserted
  <2>5. \A m \in Names \ {n} : agents'[m] = agents[m]
    BY <1>3, <2>1
  <2>6. \A m \in Names : agents[m].id \in Nat /\ agents[m].id < nextId
    BY <1>3 DEF RegistryInv, IdsAreFresh, Row
  <2>7. IdsAreFresh'
    BY <1>3, <2>1, <2>4, <2>5, <2>6 DEF IdsAreFresh
  <2>8. IdsAreUnique'
    BY <1>3, <2>4, <2>5, <2>6 DEF RegistryInv, IdsAreUnique, Exists
  <2>9. AbsentIsBlank'
    BY <1>3, <2>4, <2>5 DEF RegistryInv, AbsentIsBlank, Exists
  <2>10. ClaudeKeysAreClaude' /\ OfflineIsRetained'
    BY <1>2, <2>4, <2>5 DEF RegistryInv, ClaudeKeysAreClaude, OfflineIsRetained
  <2>11. OneMailboxPerSession'
    <3>1. ASSUME NEW m \in Names \ {n}, agents[m].key = q.key, q.key \in ClaudeKeys
          PROVE  FALSE
      <4>1. Exists(m)
        BY <3>1, AbsentIsRow, KeysAssumption DEF RegistryInv, AbsentIsBlank, Keys
      <4>2. QED BY <1>1, <3>1, <4>1
    <3>2. QED BY <2>4, <2>5, <3>1 DEF RegistryInv, OneMailboxPerSession
  <2>12. QED BY <2>3, <2>7, <2>8, <2>9, <2>10, <2>11 DEF RegistryInv
<1>6. QED BY <1>4, <1>5

\* Every other step rewrites rows in place: each row is deleted, or keeps its
\* agent_id and key, stays a Claude row if it was one, and is marked offline
\* only if it is retained.
InPlace(old, new) ==
  \/ new = Absent
  \/ /\ old.id # 0
     /\ new \in Row
     /\ new.id = old.id /\ new.key = old.key
     /\ new.kind = old.kind \/ new.kind = "claude-code"
     /\ new.offline # "no" => old.offline # "no" \/ Retained(old)

LEMMA OthersRewriteInPlace ==
  ASSUME RegistryInv, [RegistryNext]_registryVars,
         \A q \in Requests : ~Register(q)
  PROVE  /\ nextId' = nextId
         /\ agents' \in [Names -> Row]
         /\ \A n \in Names : InPlace(agents[n], agents'[n])
<1>1. /\ agents \in [Names -> Row]
      /\ \A n \in Names : agents[n].id # 0 \/ agents[n] = Absent
  BY DEF RegistryInv, TableOK, AbsentIsBlank, Exists
<1>2. CASE UNCHANGED registryVars
  BY <1>1, <1>2 DEF registryVars, InPlace
<1>3. ASSUME NEW n \in Names, Heartbeat(n) \/ BindChannel(n) \/ Lapse(n) \/ Retain(n)
      PROVE  /\ nextId' = nextId
             /\ agents' \in [Names -> Row]
             /\ \A m \in Names : InPlace(agents[m], agents'[m])
  <2>1. CASE Heartbeat(n)
    BY <1>1, <2>1 DEF Heartbeat, Exists, InPlace, Row
  <2>2. CASE BindChannel(n)
    BY <1>1, <2>2 DEF BindChannel, Exists, InPlace, Row, Kinds
  <2>3. CASE Lapse(n)
    BY <1>1, <2>3 DEF Lapse, Exists, InPlace, Row
  <2>4. CASE Retain(n)
    BY <1>1, <2>4 DEF Retain, Exists, InPlace, Row
  <2>5. QED BY <1>3, <2>1, <2>2, <2>3, <2>4
<1>4. ASSUME NEW n \in Names, Deregister(n)
      PROVE  /\ nextId' = nextId
             /\ agents' \in [Names -> Row]
             /\ \A m \in Names : InPlace(agents[m], agents'[m])
  BY <1>1, <1>4, AbsentIsRow DEF Deregister, InPlace
<1>5. CASE Reap
  <2>1. \A n \in Names : Reaped(agents[n]) \in Row /\ InPlace(agents[n], Reaped(agents[n]))
    BY <1>1, AbsentIsRow DEF Reaped, InPlace, Row, Retained, Absent
  <2>2. QED BY <1>1, <1>5, <2>1 DEF Reap
<1>6. CASE MonthPasses
  <2>1. ASSUME NEW n \in Names
        PROVE  agents'[n] \in Row /\ InPlace(agents[n], agents'[n])
    <3>1. agents'[n] = [agents[n] EXCEPT !.live = FALSE,
                                         !.offline = IF @ = "no" THEN "no" ELSE "month"]
      BY <1>6 DEF MonthPasses
    <3>2. CASE agents[n].id # 0
      <4>1. agents[n] \in Row
        BY <1>1
      <4>2. /\ agents'[n].id = agents[n].id /\ agents'[n].key = agents[n].key
            /\ agents'[n].kind = agents[n].kind
            /\ agents'[n].offline # "no" => agents[n].offline # "no"
        BY <3>1, <4>1 DEF Row
      <4>3. agents'[n] \in Row
        BY <3>1, <4>1 DEF Row
      <4>4. QED BY <3>2, <4>2, <4>3 DEF InPlace
    <3>3. CASE agents[n] = Absent
      <4>1. agents'[n] = [Absent EXCEPT !.live = FALSE, !.offline = "no"]
        BY <3>1, <3>3, AbsentIsRow
      <4>2. agents'[n] = Absent
        BY <4>1 DEF Absent
      <4>3. QED BY <4>2, AbsentIsRow DEF InPlace
    <3>4. QED BY <1>1, <3>2, <3>3
  <2>2. agents' = [n \in Names |-> agents'[n]] /\ nextId' = nextId
    BY <1>6 DEF MonthPasses
  <2>3. QED BY <2>1, <2>2
<1>7. CASE Purge
  BY <1>1, <1>7, AbsentIsRow DEF Purge, InPlace
<1>8. QED
  BY <1>2, <1>3, <1>4, <1>5, <1>6, <1>7 DEF RegistryNext, RowStep

LEMMA InPlaceKeepsInv ==
  ASSUME RegistryInv, nextId' = nextId, agents' \in [Names -> Row],
         \A n \in Names : InPlace(agents[n], agents'[n])
  PROVE  RegistryInv'
<1>1. Absent.id = 0 /\ Absent.key = None /\ Absent.offline = "no"
  BY DEF Absent
<1>2. agents \in [Names -> Row] /\ \A n \in Names : agents[n].id \in Nat /\ agents[n].id < nextId
  BY DEF RegistryInv, TableOK, IdsAreFresh, Row
<1>3. TableOK'
  BY DEF RegistryInv, TableOK
<1>4. ClaudeKeysAreClaude' /\ OneMailboxPerSession'
  BY <1>1, KeysAssumption
     DEF RegistryInv, ClaudeKeysAreClaude, OneMailboxPerSession, InPlace, Keys
<1>5. AbsentIsBlank'
  BY <1>1, <1>2 DEF RegistryInv, AbsentIsBlank, InPlace, Exists
<1>6. IdsAreFresh'
  BY <1>1, <1>2, MaxAgentsAssumption DEF RegistryInv, TableOK, IdsAreFresh, InPlace
<1>7. IdsAreUnique'
  BY <1>1 DEF RegistryInv, IdsAreUnique, InPlace, Exists
<1>8. OfflineIsRetained'
  <2>1. ASSUME NEW n \in Names, agents'[n].offline # "no"
        PROVE  Retained(agents'[n])
    BY <1>1, <2>1 DEF RegistryInv, OfflineIsRetained, InPlace, Retained
  <2>2. QED BY <2>1 DEF OfflineIsRetained
<1>9. QED BY <1>3, <1>4, <1>5, <1>6, <1>7, <1>8 DEF RegistryInv

LEMMA RegistryInvInit == RegistryInit => RegistryInv
<1> SUFFICES ASSUME RegistryInit PROVE RegistryInv
  OBVIOUS
<1>1. \A n \in Names : agents[n] = Absent
  BY DEF RegistryInit
<1>2. Absent.id = 0 /\ Absent.key = None /\ Absent.offline = "no"
  BY DEF Absent
<1>3. TableOK
  BY AbsentIsRow, MaxAgentsAssumption DEF RegistryInit, TableOK
<1>4. QED
  BY <1>1, <1>2, <1>3, KeysAssumption
     DEF RegistryInv, RegistryInit, ClaudeKeysAreClaude, AbsentIsBlank, IdsAreFresh,
         IdsAreUnique, OneMailboxPerSession, OfflineIsRetained, Exists, Keys

LEMMA RegistryInvStep == RegistryInv /\ [RegistryNext]_registryVars => RegistryInv'
<1> SUFFICES ASSUME RegistryInv, [RegistryNext]_registryVars PROVE RegistryInv'
  OBVIOUS
<1>1. CASE \E q \in Requests : Register(q)
  BY <1>1, RegisterKeepsInv
<1>2. CASE \A q \in Requests : ~Register(q)
  BY <1>2, OthersRewriteInPlace, InPlaceKeepsInv
<1>3. QED BY <1>1, <1>2

-----------------------------------------------------------------------------
(* Who may take a row away.                                                *)

\* The row keeps its agent_id and its owner, and a Claude row stays one.
SameOwner(old, new) ==
  /\ new.id = old.id /\ new.key = old.key
  /\ new.kind = old.kind \/ new.kind = "claude-code"

\* A heartbeat, a binding, a deregistration with retain_mailbox and the mere
\* passing of time leave every row with its owner.
LEMMA MarksKeepOwner ==
  ASSUME RegistryInv,
         \/ \E n \in Names : Heartbeat(n) \/ BindChannel(n) \/ Retain(n) \/ Lapse(n)
         \/ MonthPasses
         \/ UNCHANGED registryVars
  PROVE  \A m \in Names : SameOwner(agents[m], agents'[m])
<1>1. agents \in [Names -> Row]
  BY DEF RegistryInv, TableOK
<1>2. ASSUME NEW n \in Names, Heartbeat(n)
      PROVE  \A m \in Names : SameOwner(agents[m], agents'[m])
  BY <1>1, <1>2 DEF Heartbeat, SameOwner, Row
<1>3. ASSUME NEW n \in Names, BindChannel(n)
      PROVE  \A m \in Names : SameOwner(agents[m], agents'[m])
  BY <1>1, <1>3 DEF BindChannel, SameOwner, Row
<1>4. ASSUME NEW n \in Names, Retain(n)
      PROVE  \A m \in Names : SameOwner(agents[m], agents'[m])
  BY <1>1, <1>4 DEF Retain, SameOwner, Row
<1>5. ASSUME NEW n \in Names, Lapse(n)
      PROVE  \A m \in Names : SameOwner(agents[m], agents'[m])
  BY <1>1, <1>5 DEF Lapse, SameOwner, Row
<1>6. ASSUME MonthPasses, NEW m \in Names
      PROVE  SameOwner(agents[m], agents'[m])
  <2>1. agents'[m] = [agents[m] EXCEPT !.live = FALSE,
                                       !.offline = IF @ = "no" THEN "no" ELSE "month"]
    BY <1>6 DEF MonthPasses
  <2>2. agents[m] \in Row
    BY <1>1
  <2>3. QED BY <2>1, <2>2 DEF SameOwner, Row
<1>7. CASE UNCHANGED registryVars
  BY <1>7 DEF registryVars, SameOwner
<1>8. QED BY <1>2, <1>3, <1>4, <1>5, <1>6, <1>7

\* Registering leaves a retained row, and for a keyed caller a live one, with
\* the session that owns it.
LEMMA RegisterKeepsOwner ==
  ASSUME RegistryInv, NEW q \in Requests, Register(q), NEW m \in Names, Exists(m)
  PROVE  /\ Retained(agents[m]) => SameOwner(agents[m], agents'[m])
         /\ agents[m].live /\ agents[m].key # None =>
              agents'[m].id = agents[m].id /\ agents'[m].key = agents[m].key
<1>1. PICK n \in Names :
        /\ WriteRow(n, q)
        /\ Exists(n) /\ Retained(agents[n]) => SameSession(agents[n], q)
        /\ Exists(n) /\ agents[n].live /\ q.key # None => SameSession(agents[n], q)
  BY RegisterTargets
<1>2. agents \in [Names -> Row]
  BY DEF RegistryInv, TableOK
<1>3. CASE m # n
  BY <1>1, <1>2, <1>3 DEF WriteRow, SameOwner
<1>4. CASE m = n
  <2>1. agents' = [agents EXCEPT ![m] = Updated(agents[m], q)]
    BY <1>1, <1>4 DEF WriteRow
  <2>2. /\ agents'[m].id = agents[m].id
        /\ agents'[m].key = (IF q.key # None THEN q.key ELSE agents[m].key)
        /\ agents'[m].kind = q.kind
    BY <1>2, <2>1 DEF Updated, Row
  <2>3. QED BY <1>1, <1>4, <2>2 DEF SameSession, SameOwner, Retained
<1>5. QED BY <1>3, <1>4

\* One step, one row: what RetainedMailboxKept says of it.
LEMMA StepKeepsRetained ==
  ASSUME RegistryInv, [RegistryNext]_registryVars,
         NEW m \in Names, Exists(m), Retained(agents[m])
  PROVE  \/ /\ agents'[m].id = agents[m].id
            /\ agents'[m].key = agents[m].key
            /\ Retained(agents'[m])
         \/ Deregister(m)
         \/ Purge /\ agents[m].offline = "month"
<1>1. agents \in [Names -> Row]
  BY DEF RegistryInv, TableOK
<1>2. SameOwner(agents[m], agents'[m]) =>
        /\ agents'[m].id = agents[m].id
        /\ agents'[m].key = agents[m].key
        /\ Retained(agents'[m])
  BY DEF SameOwner, Retained
<1>3. CASE \E q \in Requests : Register(q)
  BY <1>2, <1>3, RegisterKeepsOwner
<1>4. CASE \/ \E n \in Names : Heartbeat(n) \/ BindChannel(n) \/ Retain(n) \/ Lapse(n)
           \/ MonthPasses
           \/ UNCHANGED registryVars
  BY <1>2, <1>4, MarksKeepOwner
<1>5. ASSUME NEW n \in Names, Deregister(n), ~Deregister(m)
      PROVE  SameOwner(agents[m], agents'[m])
  BY <1>1, <1>5 DEF Deregister, SameOwner
<1>6. CASE Reap
  <2>1. agents'[m] = Reaped(agents[m]) /\ agents[m] \in Row
    BY <1>1, <1>6 DEF Reap
  <2>2. SameOwner(agents[m], agents'[m])
    BY <2>1 DEF Reaped, SameOwner, Row
  <2>3. QED BY <1>2, <2>2
<1>7. CASE Purge
  <2>1. Purgeable(agents[m]) => agents[m].offline = "month"
    BY DEF Purgeable
  <2>2. ~Purgeable(agents[m]) => agents'[m] = agents[m]
    BY <1>7 DEF Purge
  <2>3. QED BY <1>7, <2>1, <2>2
<1>8. QED BY <1>2, <1>3, <1>4, <1>5, <1>6, <1>7 DEF RegistryNext, RowStep

\* One step, one row: what LiveNameKept says of it.
LEMMA StepKeepsLiveName ==
  ASSUME RegistryInv, [RegistryNext]_registryVars,
         NEW m \in Names, agents[m].live, agents[m].key # None
  PROVE  \/ agents'[m].id = agents[m].id /\ agents'[m].key = agents[m].key
         \/ Deregister(m)
         \/ Purge
<1>1. agents \in [Names -> Row] /\ Exists(m)
  BY AbsentIsRow DEF RegistryInv, TableOK, AbsentIsBlank
<1>2. CASE \E q \in Requests : Register(q)
  BY <1>1, <1>2, RegisterKeepsOwner
<1>3. CASE \/ \E n \in Names : Heartbeat(n) \/ BindChannel(n) \/ Retain(n) \/ Lapse(n)
           \/ MonthPasses
           \/ UNCHANGED registryVars
  BY <1>3, MarksKeepOwner DEF SameOwner
<1>4. ASSUME NEW n \in Names, Deregister(n), ~Deregister(m)
      PROVE  agents'[m] = agents[m]
  BY <1>1, <1>4 DEF Deregister
<1>5. CASE Reap
  BY <1>5 DEF Reap, Reaped
<1>6. QED BY <1>2, <1>3, <1>4, <1>5 DEF RegistryNext, RowStep

-----------------------------------------------------------------------------
(* The theorems *)

\* The strengthened invariant holds throughout.
THEOREM RegistryInvariant == RegistrySpec => []RegistryInv
<1>1. QED BY RegistryInvInit, RegistryInvStep, PTL DEF RegistrySpec

\* The agents table is well formed in every reachable state.
THEOREM RegistryTypeCorrect == RegistrySpec => []RegistryTypeOK
<1>1. RegistryInv => RegistryTypeOK
  BY DEF RegistryInv, RegistryTypeOK
<1>2. QED BY <1>1, RegistryInvariant, PTL

\* A Claude session never owns two mailboxes, whatever names it asks for and
\* whatever other sessions do.
THEOREM SessionsOwnOneMailbox == RegistrySpec => []OneMailboxPerSession
<1>1. RegistryInv => OneMailboxPerSession
  BY DEF RegistryInv
<1>2. QED BY <1>1, RegistryInvariant, PTL

\* Only retained Claude rows are ever marked offline.
THEOREM OfflineRowsAreRetained == RegistrySpec => []OfflineIsRetained
<1>1. RegistryInv => OfflineIsRetained
  BY DEF RegistryInv
<1>2. QED BY <1>1, RegistryInvariant, PTL

\* A retained mailbox goes only by its own deregistration, or a month offline.
THEOREM RetainedMailboxesAreKept == RegistrySpec => RetainedMailboxKept
<1>1. RegistryInv /\ [RegistryNext]_registryVars =>
        [\A n \in Names :
           Exists(n) /\ Retained(agents[n]) =>
             \/ /\ agents'[n].id = agents[n].id
                /\ agents'[n].key = agents[n].key
                /\ Retained(agents'[n])
             \/ Deregister(n)
             \/ Purge /\ agents[n].offline = "month"]_registryVars
  BY StepKeepsRetained
<1>2. QED BY <1>1, RegistryInvariant, PTL DEF RegistrySpec, RetainedMailboxKept

\* No other session is given a name that a live keyed session holds.
THEOREM LiveNamesAreKept == RegistrySpec => LiveNameKept
<1>1. RegistryInv /\ [RegistryNext]_registryVars =>
        [\A n \in Names :
           agents[n].live /\ agents[n].key # None =>
             \/ agents'[n].id = agents[n].id /\ agents'[n].key = agents[n].key
             \/ Deregister(n)
             \/ Purge]_registryVars
  BY StepKeepsLiveName
<1>2. QED BY <1>1, RegistryInvariant, PTL DEF RegistrySpec, LiveNameKept

-----------------------------------------------------------------------------
(* The mailboxes *)

MailIsToRows == \A e \in Events : \A a \in mail[e].to : a < nextId

CursorPassedBirth == \A a \in AgentIds : born[a] <= cursor[a]

TakenIsBehind ==
  \A a \in AgentIds : \A e \in got[a] : born[a] < e /\ e <= cursor[a]

TakersHaveRows == \A a \in AgentIds : got[a] # {} => a \in RowIds

NoneSkipped ==
  \A a \in RowIds :
    born[a] > 0 =>
      \A e \in Events :
        a \in mail[e].to => e \in got[a] \/ e > cursor[a] \/ e <= purged

MailInv ==
  /\ RegistryInv
  /\ TypeOK
  /\ MailIsToRows
  /\ CursorPassedBirth
  /\ TakenIsBehind
  /\ TakersHaveRows
  /\ NoneSkipped
  /\ HandedOutOnce

-----------------------------------------------------------------------------
(* Rows and their ids *)

\* Every row of the table has an agent_id an INSERT has used.
LEMMA RowIdsAreOld ==
  ASSUME RegistryInv
  PROVE  /\ nextId \in Nat
         /\ \A a \in RowIds : a \in AgentIds /\ a < nextId
         /\ \A n \in Names : Exists(n) => agents[n].id \in RowIds
<1>1. agents \in [Names -> Row] /\ nextId \in 1 .. MaxAgents + 1 /\ MaxAgents \in Nat
  BY MaxAgentsAssumption DEF RegistryInv, TableOK
<1>2. \A n \in Names : agents[n].id \in Nat /\ agents[n].id < nextId
  BY <1>1 DEF RegistryInv, IdsAreFresh, Row
<1>3. \A n \in Names : Exists(n) => agents[n].id \in AgentIds
  BY <1>1, <1>2 DEF Exists, AgentIds
<1>4. QED BY <1>1, <1>2, <1>3 DEF RowIds, Ids

\* A step on the table brings at most one new row, under the next id, and
\* nextId never goes back.
LEMMA RowsAreOldOrNew ==
  ASSUME RegistryInv, [RegistryNext]_registryVars
  PROVE  /\ nextId' \in Nat /\ nextId <= nextId'
         /\ \A a \in RowIds' : a \in AgentIds /\ (a \in RowIds \/ a = nextId)
<1>1. agents \in [Names -> Row] /\ nextId \in 1 .. MaxAgents + 1 /\ MaxAgents \in Nat
  BY MaxAgentsAssumption DEF RegistryInv, TableOK
<1>2. RegistryInv'
  BY RegistryInvStep
<1>3. ASSUME NEW q \in Requests, Register(q)
      PROVE  /\ nextId <= nextId'
             /\ \A m \in Names : Exists(m)' =>
                  (Exists(m) /\ agents'[m].id = agents[m].id) \/ agents'[m].id = nextId
  <2>1. PICK n \in Names : WriteRow(n, q)
    BY <1>3, RegisterTargets
  <2>2. CASE Exists(n)
    <3>1. Updated(agents[n], q).id = agents[n].id
      BY <1>3, RegisterWritesRows DEF RegistryInv
    <3>2. nextId' = nextId /\ agents' = [agents EXCEPT ![n] = Updated(agents[n], q)]
      BY <2>1, <2>2 DEF WriteRow
    <3>3. QED BY <1>1, <3>1, <3>2 DEF Exists
  <2>3. CASE ~Exists(n)
    <3>1. nextId' = nextId + 1 /\ agents' = [agents EXCEPT ![n] = Inserted(q)]
      BY <2>1, <2>3 DEF WriteRow
    <3>2. Inserted(q).id = nextId
      BY DEF Inserted
    <3>3. QED BY <1>1, <3>1, <3>2 DEF Exists
  <2>4. QED BY <2>2, <2>3
<1>4. ASSUME \A q \in Requests : ~Register(q)
      PROVE  /\ nextId <= nextId'
             /\ \A m \in Names : Exists(m)' => Exists(m) /\ agents'[m].id = agents[m].id
  <2>1. nextId' = nextId /\ \A m \in Names : InPlace(agents[m], agents'[m])
    BY <1>4, OthersRewriteInPlace
  <2>2. QED BY <1>1, <2>1 DEF InPlace, Exists, Absent
<1>5. /\ nextId <= nextId'
      /\ \A m \in Names : Exists(m)' =>
           (Exists(m) /\ agents'[m].id = agents[m].id) \/ agents'[m].id = nextId
  BY <1>3, <1>4
<1>6. nextId' \in 1 .. MaxAgents + 1
  BY <1>2 DEF RegistryInv, TableOK
<1>7. \A n \in Names : agents'[n].id \in Nat /\ agents'[n].id < nextId'
  BY <1>2 DEF RegistryInv, IdsAreFresh, TableOK, Row
<1>8. \A n \in Names : Exists(n)' => agents'[n].id \in AgentIds
  BY <1>1, <1>6, <1>7 DEF Exists, AgentIds
<1>9. QED BY <1>5, <1>6, <1>8 DEF RowIds, Ids, Exists

\* The watermark is an event id, and none is newer unless all are purged.
LEMMA WatermarkBounds ==
  ASSUME TypeOK
  PROVE  /\ MaxEvent \in 0 .. Len(mail)
         /\ Len(mail) \in Nat /\ purged \in 0 .. Len(mail)
         /\ \A e \in Events : e <= purged \/ e <= MaxEvent
BY DEF TypeOK, MaxEvent, Events

-----------------------------------------------------------------------------
(* Steps *)

\* The steps of the table, the month and the cleanup: columns follow the rows.
RowsMove ==
  /\ [RegistryNext]_registryVars
  /\ FollowRows
  /\ aged' \in {aged, Len(mail)}
  /\ purged' \in {purged, aged}
  /\ purged' <= aged'

LEMMA RowsMoveKeepsInv ==
  ASSUME MailInv, RowsMove
  PROVE  MailInv'
<1>1. RegistryInv /\ RegistryInv'
  BY RegistryInvStep DEF MailInv, RowsMove
<1>2. /\ mail' = mail /\ again' = again
      /\ cursor' = Column(cursor, MaxEvent, 0)
      /\ born' = Column(born, MaxEvent, 0)
      /\ got' = Column(got, {}, {})
  BY DEF RowsMove, FollowRows
<1>3. TypeOK /\ HandedOutOnce
  BY DEF MailInv
<1>4. /\ aged \in Nat /\ purged \in Nat /\ Len(mail) \in Nat
      /\ purged <= aged /\ aged <= Len(mail) /\ MaxEvent \in 0 .. Len(mail)
  BY <1>3, WatermarkBounds DEF TypeOK
<1>5. /\ aged' \in 0 .. Len(mail') /\ purged' \in 0 .. aged' /\ purged <= purged'
  BY <1>2, <1>4 DEF RowsMove
<1>6. /\ cursor' \in [AgentIds -> 0 .. Len(mail)]
      /\ born' \in [AgentIds -> 0 .. Len(mail)]
      /\ got' \in [AgentIds -> SUBSET Events]
  BY <1>2, <1>3, <1>4 DEF TypeOK, Column
<1>7. TypeOK'
  BY <1>1, <1>2, <1>3, <1>5, <1>6 DEF TypeOK, RegistryInv, RegistryTypeOK, Events
<1>8. /\ nextId \in Nat /\ nextId' \in Nat /\ nextId <= nextId'
      /\ \A a \in RowIds : a \in AgentIds /\ a < nextId
      /\ \A a \in RowIds' : a \in AgentIds /\ (a \in RowIds \/ a = nextId)
  BY <1>1, RowIdsAreOld, RowsAreOldOrNew DEF RowsMove
<1>9. \A e \in Events : mail[e].to \subseteq AgentIds
  <2>1. \A e \in 1 .. Len(mail) : mail[e] \in Letter
    BY <1>3, ElementOfSeq DEF TypeOK
  <2>2. QED BY <2>1 DEF Events, Letter
<1>10. MailIsToRows'
  BY <1>2, <1>8, <1>9 DEF MailInv, MailIsToRows, Events, AgentIds
<1>11. CursorPassedBirth'
  BY <1>2, <1>3, <1>4 DEF MailInv, CursorPassedBirth, Column, TypeOK
<1>12. TakenIsBehind'
  BY <1>2, <1>3 DEF MailInv, TakenIsBehind, Column, TypeOK
<1>13. NoneSkipped'
  <2>1. SUFFICES ASSUME NEW a \in RowIds', born'[a] > 0, NEW e \in Events,
                        a \in mail[e].to
                 PROVE  e \in got'[a] \/ e > cursor'[a] \/ e <= purged'
    BY <1>2 DEF NoneSkipped, Events
  <2>2. a \in AgentIds /\ e \in Nat
    BY <1>8 DEF Events
  <2>3. a # nextId
    BY <1>8, <2>1, <2>2 DEF MailInv, MailIsToRows
  <2>4. a \in RowIds
    BY <1>8, <2>3
  <2>5. cursor'[a] = cursor[a] /\ born'[a] = born[a] /\ got'[a] = got[a]
    BY <1>2, <2>2, <2>4 DEF Column
  <2>6. e \in got[a] \/ e > cursor[a] \/ e <= purged
    BY <2>1, <2>4, <2>5 DEF MailInv, NoneSkipped
  <2>7. QED BY <1>4, <1>5, <2>2, <2>5, <2>6
<1>14. HandedOutOnce'
  BY <1>2, <1>3 DEF HandedOutOnce
<1>15. TakersHaveRows'
  BY <1>2 DEF TakersHaveRows, Column
<1>16. QED BY <1>1, <1>7, <1>10, <1>11, <1>12, <1>13, <1>14, <1>15 DEF MailInv

\* A message is addressed to rows, and everything before it stays as it was.
LEMMA InsertAddsOne ==
  ASSUME MailInv, NEW S \in SUBSET Names, NEW role \in Roles \cup {None},
         \A n \in S : Exists(n), Insert(S, role)
  PROVE  /\ Ids(S) \subseteq RowIds
         /\ Len(mail) \in Nat /\ Len(mail') = Len(mail) + 1
         /\ mail' \in Seq(Letter)
         /\ \A e \in Events : mail'[e] = mail[e]
         /\ mail'[Len(mail) + 1].to = Ids(S)
<1>1. mail \in Seq(Letter) /\ Len(mail) \in Nat
  BY DEF MailInv, TypeOK
<1>2. Ids(S) \subseteq RowIds /\ Ids(S) \subseteq AgentIds
  BY RowIdsAreOld DEF MailInv, Ids
<1>3. PICK x : x = [to |-> Ids(S), role |-> role]
  OBVIOUS
<1>4. mail' = Append(mail, x) /\ x \in Letter /\ x.to = Ids(S)
  BY <1>2, <1>3 DEF Insert, Letter
<1>5. /\ mail' \in Seq(Letter) /\ Len(mail') = Len(mail) + 1
      /\ \A e \in 1 .. Len(mail) : mail'[e] = mail[e]
      /\ mail'[Len(mail) + 1] = x
  BY <1>1, <1>4, AppendProperties
<1>6. QED BY <1>1, <1>2, <1>4, <1>5 DEF Events

LEMMA InsertKeepsInv ==
  ASSUME MailInv, NEW S \in SUBSET Names, NEW role \in Roles \cup {None},
         \A n \in S : Exists(n), Insert(S, role)
  PROVE  MailInv'
<1>1. /\ UNCHANGED <<agents, nextId, aged, purged, cursor, born, got, again>>
  BY DEF Insert, registryVars, historyVars
<1>2. /\ Ids(S) \subseteq RowIds
      /\ Len(mail) \in Nat /\ Len(mail') = Len(mail) + 1
      /\ mail' \in Seq(Letter)
      /\ \A e \in Events : mail'[e] = mail[e]
      /\ mail'[Len(mail) + 1].to = Ids(S)
  BY InsertAddsOne
<1>3. RegistryInv /\ RegistryInv' /\ TypeOK
  BY <1>1, RegistryInvStep DEF MailInv, registryVars
<1>4. \A e \in Events' : e \in Events \/ e = Len(mail) + 1
  BY <1>2 DEF Events
<1>5. Events \subseteq Events' /\ 0 .. Len(mail) \subseteq 0 .. Len(mail')
  BY <1>2 DEF Events
<1>6. TypeOK'
  <2>1. cursor' \in [AgentIds -> 0 .. Len(mail')] /\ born' \in [AgentIds -> 0 .. Len(mail')]
    BY <1>1, <1>3, <1>5 DEF TypeOK
  <2>2. got' \in [AgentIds -> SUBSET Events'] /\ again' \subseteq AgentIds \X Events'
    BY <1>1, <1>3, <1>5 DEF TypeOK
  <2>3. aged' \in 0 .. Len(mail') /\ purged' \in 0 .. aged'
    BY <1>1, <1>3, <1>5 DEF TypeOK
  <2>4. QED BY <1>2, <1>3, <2>1, <2>2, <2>3 DEF TypeOK, RegistryInv, RegistryTypeOK
<1>7. RowIds' = RowIds /\ \A a \in RowIds : a \in AgentIds /\ a < nextId
  BY <1>1, <1>3, RowIdsAreOld DEF RowIds, Ids, Exists
<1>8. MailIsToRows'
  BY <1>1, <1>2, <1>4, <1>7 DEF MailInv, MailIsToRows
<1>9. CursorPassedBirth' /\ TakenIsBehind' /\ TakersHaveRows' /\ HandedOutOnce'
  BY <1>1, <1>7 DEF MailInv, CursorPassedBirth, TakenIsBehind, TakersHaveRows, HandedOutOnce
<1>10. NoneSkipped'
  <2>1. SUFFICES ASSUME NEW a \in RowIds, born[a] > 0, NEW e \in Events', a \in mail'[e].to
                 PROVE  e \in got[a] \/ e > cursor[a] \/ e <= purged
    BY <1>1, <1>7 DEF NoneSkipped
  <2>2. CASE e \in Events
    BY <1>2, <2>1, <2>2 DEF MailInv, NoneSkipped
  <2>3. CASE e = Len(mail) + 1
    BY <1>2, <1>3, <1>7, <2>3 DEF TypeOK
  <2>4. QED BY <1>4, <2>2, <2>3
<1>11. QED BY <1>3, <1>6, <1>8, <1>9, <1>10 DEF MailInv

\* A page holds what is ahead of the cursor, and the cursor moves to its end.
LEMMA ReadKeepsInv ==
  ASSUME MailInv, NEW n \in Names, NEW c \in Events, Read(n, c)
  PROVE  MailInv'
<1>1. PICK a : a = agents[n].id
  OBVIOUS
<1>2. PICK page : page = {e \in Unread(n) : e <= c}
  OBVIOUS
<1>3. /\ Exists(n) /\ c \in Unread(n)
      /\ cursor' = [cursor EXCEPT ![a] = c]
      /\ got' = [got EXCEPT ![a] = @ \cup page]
      /\ again' = again \cup {<<a, e>> : e \in page \cap got[a]}
      /\ UNCHANGED <<agents, nextId, mail, aged, purged, born>>
  BY <1>1, <1>2 DEF Read, registryVars
<1>4. RegistryInv /\ RegistryInv' /\ TypeOK
  BY <1>3, RegistryInvStep DEF MailInv, registryVars
<1>5. a \in AgentIds /\ a \in RowIds
  BY <1>1, <1>3, <1>4, RowIdsAreOld
<1>6. /\ Len(mail) \in Nat /\ c \in Nat /\ c > cursor[a]
      /\ page = {e \in Events : e > purged /\ e > cursor[a] /\ Addressed(n, e) /\ e <= c}
  BY <1>1, <1>2, <1>3, <1>4 DEF Unread, Events, TypeOK
<1>7. /\ page \subseteq Events
      /\ \A e \in page : e \in Nat /\ e > cursor[a] /\ e <= c
  BY <1>6 DEF Events
<1>8. page \cap got[a] = {}
  BY <1>4, <1>5, <1>7 DEF MailInv, TakenIsBehind, TypeOK
<1>9. HandedOutOnce'
  BY <1>3, <1>8 DEF MailInv, HandedOutOnce
<1>10. TypeOK'
  <2>1. c \in 0 .. Len(mail)
    BY <1>6 DEF Events
  <2>2. cursor' \in [AgentIds -> 0 .. Len(mail)]
    BY <1>3, <1>4, <1>5, <2>1 DEF TypeOK
  <2>3. got' \in [AgentIds -> SUBSET Events]
    BY <1>3, <1>4, <1>5, <1>7 DEF TypeOK
  <2>4. again' = {}
    BY <1>9 DEF HandedOutOnce
  <2>5. QED
    BY <1>3, <1>4, <2>2, <2>3, <2>4 DEF TypeOK, RegistryInv, RegistryTypeOK, Events
<1>11. MailIsToRows'
  BY <1>3 DEF MailInv, MailIsToRows, Events
<1>12. \A b \in AgentIds : born[b] \in Nat /\ cursor[b] \in Nat /\ got[b] \subseteq Nat
                          /\ cursor[b] <= cursor'[b]
  <2>1. \A b \in AgentIds :
          born[b] \in Nat /\ cursor[b] \in Nat /\ got[b] \subseteq 1 .. Len(mail)
    BY <1>4, <1>6 DEF TypeOK, Events
  <2>2. \A b \in AgentIds : cursor'[b] = IF b = a THEN c ELSE cursor[b]
    BY <1>3, <1>4 DEF TypeOK
  <2>3. QED BY <1>6, <2>1, <2>2
<1>13. \A b \in AgentIds :
         /\ cursor'[b] = IF b = a THEN c ELSE cursor[b]
         /\ got'[b] = IF b = a THEN got[b] \cup page ELSE got[b]
  BY <1>3, <1>4 DEF TypeOK
<1>14. CursorPassedBirth'
  BY <1>3, <1>6, <1>12 DEF MailInv, CursorPassedBirth
<1>15. TakenIsBehind'
  <2>1. SUFFICES ASSUME NEW b \in AgentIds, NEW e \in got'[b]
                 PROVE  born[b] < e /\ e <= cursor'[b]
    BY <1>3 DEF TakenIsBehind
  <2>2. CASE e \in got[b]
    <3>1. e \in Nat /\ cursor'[b] \in Nat
      BY <1>6, <1>12, <1>13, <2>2
    <3>2. QED BY <1>12, <2>2, <3>1 DEF MailInv, TakenIsBehind
  <2>3. CASE b = a /\ e \in page
    <3>1. cursor'[b] = c /\ e \in Nat /\ e > cursor[b] /\ e <= c
      BY <1>7, <1>13, <2>3
    <3>2. born[b] \in Nat /\ cursor[b] \in Nat /\ born[b] <= cursor[b]
      BY <1>12 DEF MailInv, CursorPassedBirth
    <3>3. QED BY <3>1, <3>2
  <2>4. QED BY <1>13, <2>2, <2>3
<1>16. NoneSkipped'
  <2>1. SUFFICES ASSUME NEW b \in RowIds, born[b] > 0, NEW e \in Events, b \in mail[e].to
                 PROVE  e \in got'[b] \/ e > cursor'[b] \/ e <= purged
    BY <1>3 DEF NoneSkipped, Events, RowIds, Ids, Exists
  <2>2. e \in got[b] \/ e > cursor[b] \/ e <= purged
    BY <2>1 DEF MailInv, NoneSkipped
  <2>3. b \in AgentIds /\ e \in Nat /\ purged \in Nat
    BY <1>4, RowIdsAreOld DEF Events, TypeOK
  <2>4. CASE b = a
    <3>1. Addressed(n, e)
      BY <1>1, <2>1, <2>4 DEF Addressed
    <3>2. e > cursor[a] /\ ~(e <= purged) /\ e <= c => e \in page
      BY <1>6, <2>3, <3>1
    <3>3. cursor'[b] = c /\ got'[b] = got[b] \cup page /\ c \in Nat
      BY <1>6, <1>13, <2>3, <2>4
    <3>4. QED BY <2>2, <2>3, <2>4, <3>2, <3>3
  <2>5. QED BY <1>13, <2>2, <2>3, <2>4
<1>17. TakersHaveRows'
  BY <1>3, <1>5, <1>13 DEF MailInv, TakersHaveRows, RowIds, Ids, Exists
<1>18. QED BY <1>4, <1>9, <1>10, <1>11, <1>14, <1>15, <1>16, <1>17 DEF MailInv

\* A restart moves only cursors at 0, which nothing was read up to.
LEMMA RestartKeepsInv ==
  ASSUME MailInv, Restart
  PROVE  MailInv'
<1>1. UNCHANGED <<agents, nextId, mail, aged, purged, born, got, again>>
  BY DEF Restart, registryVars, historyVars
<1>2. RegistryInv /\ RegistryInv' /\ TypeOK
  BY <1>1, RegistryInvStep DEF MailInv, registryVars
<1>3. MaxEvent \in 0 .. Len(mail) /\ Len(mail) \in Nat
  BY <1>2, WatermarkBounds
<1>4. /\ cursor' \in [AgentIds -> 0 .. Len(mail)]
      /\ \A a \in AgentIds :
           /\ cursor[a] <= cursor'[a]
           /\ cursor'[a] = cursor[a] \/ cursor[a] = 0
  BY <1>2, <1>3 DEF Restart, TypeOK
<1>5. TypeOK'
  BY <1>1, <1>2, <1>4 DEF TypeOK, RegistryInv, RegistryTypeOK, Events
<1>6. \A a \in AgentIds : born[a] \in 0 .. Len(mail) /\ cursor[a] \in 0 .. Len(mail)
                         /\ cursor'[a] \in 0 .. Len(mail) /\ got[a] \subseteq 1 .. Len(mail)
  BY <1>2, <1>4 DEF TypeOK, Events
<1>7. CursorPassedBirth' /\ TakenIsBehind'
  <2>1. \A a \in AgentIds : born[a] <= cursor'[a]
    BY <1>3, <1>4, <1>6 DEF MailInv, CursorPassedBirth
  <2>2. \A a \in AgentIds : \A e \in got[a] : born[a] < e /\ e <= cursor'[a]
    BY <1>3, <1>4, <1>6 DEF MailInv, TakenIsBehind
  <2>3. QED BY <1>1, <2>1, <2>2 DEF CursorPassedBirth, TakenIsBehind
<1>8. NoneSkipped'
  <2>1. \A a \in RowIds : a \in AgentIds
    BY <1>2, RowIdsAreOld
  <2>2. \A a \in RowIds : born[a] > 0 => cursor'[a] = cursor[a]
    BY <1>3, <1>4, <1>6, <2>1 DEF MailInv, CursorPassedBirth
  <2>3. QED
    BY <1>1, <2>2 DEF MailInv, NoneSkipped, Events, RowIds, Ids, Exists
<1>9. MailIsToRows' /\ TakersHaveRows' /\ HandedOutOnce'
  BY <1>1 DEF MailInv, MailIsToRows, TakersHaveRows, HandedOutOnce, Events, RowIds, Ids, Exists
<1>10. QED BY <1>2, <1>5, <1>7, <1>8, <1>9 DEF MailInv

\* Every send writes one message, to rows that exist.
LEMMA StepKinds ==
  ASSUME MailInv, [Next]_vars
  PROVE  \/ RowsMove
         \/ \E S \in SUBSET Names, role \in Roles \cup {None} :
              (\A n \in S : Exists(n)) /\ Insert(S, role)
         \/ \E n \in Names, c \in Events : Read(n, c)
         \/ Restart
         \/ UNCHANGED vars
<1>1. /\ aged \in Nat /\ purged \in Nat /\ Len(mail) \in Nat
      /\ purged <= aged /\ aged <= Len(mail)
  BY WatermarkBounds DEF MailInv, TypeOK
<1>2. CASE RegistryStep
  BY <1>1, <1>2 DEF RegistryStep, RegistryNext, RowsMove
<1>3. CASE TimePasses
  BY <1>1, <1>3 DEF TimePasses, RegistryNext, RowsMove
<1>4. CASE Cleanup
  BY <1>1, <1>4 DEF Cleanup, RegistryNext, RowsMove
<1>5. ASSUME NEW from \in Names, NEW to \in Names, Send(from, to)
      PROVE  \E S \in SUBSET Names, role \in Roles \cup {None} :
               (\A n \in S : Exists(n)) /\ Insert(S, role)
  <2>1. {to} \in SUBSET Names /\ (\A n \in {to} : Exists(n)) /\ Insert({to}, None)
    BY <1>5 DEF Send, Reachable
  <2>2. QED BY <2>1
<1>6. ASSUME NEW from \in Names, Broadcast(from)
      PROVE  \E S \in SUBSET Names, role \in Roles \cup {None} :
               (\A n \in S : Exists(n)) /\ Insert(S, role)
  BY <1>6 DEF Broadcast, Reachable
<1>7. ASSUME NEW from \in Names, NEW role \in Roles, BroadcastToRole(from, role)
      PROVE  \E S \in SUBSET Names, r \in Roles \cup {None} :
               (\A n \in S : Exists(n)) /\ Insert(S, r)
  <2>1. PICK S \in SUBSET Names : (\A n \in S : Exists(n)) /\ Insert(S, role)
    BY <1>7 DEF BroadcastToRole, Reachable
  <2>2. QED BY <2>1
<1>8. QED BY <1>2, <1>3, <1>4, <1>5, <1>6, <1>7 DEF Next

LEMMA MailInvStep == MailInv /\ [Next]_vars => MailInv'
<1>1. SUFFICES ASSUME MailInv, [Next]_vars PROVE MailInv'
  OBVIOUS
<1>2. ASSUME UNCHANGED vars PROVE MailInv'
  <2>1. UNCHANGED <<agents, nextId, mail, aged, purged, cursor, born, got, again>>
    BY <1>2 DEF vars, registryVars, mailVars, historyVars
  <2>2. RegistryInv'
    BY <1>1, <2>1, RegistryInvStep DEF MailInv, registryVars
  <2>3. TypeOK'
    BY <1>1, <2>1, <2>2 DEF MailInv, TypeOK, RegistryInv, RegistryTypeOK, Events
  <2>4. QED
    BY <1>1, <2>1, <2>2, <2>3
       DEF MailInv, MailIsToRows, CursorPassedBirth, TakenIsBehind, TakersHaveRows,
           NoneSkipped, HandedOutOnce, Events, RowIds, Ids, Exists
<1>3. QED
  BY <1>1, <1>2, StepKinds, RowsMoveKeepsInv, InsertKeepsInv, ReadKeepsInv, RestartKeepsInv

LEMMA MailInvInit == Init => MailInv
<1>1. SUFFICES ASSUME Init PROVE MailInv
  OBVIOUS
<1>2. RegistryInv
  BY <1>1, RegistryInvInit DEF Init
<1>3. Len(mail) = 0 /\ Events = {} /\ mail \in Seq(Letter)
  <2>1. mail = <<>> /\ Len(mail) = 0
    BY <1>1 DEF Init
  <2>2. QED BY <2>1, EmptySeq DEF Events
<1>4. TypeOK
  BY <1>1, <1>2, <1>3 DEF Init, TypeOK, RegistryInv, RegistryTypeOK
<1>5. QED
  BY <1>1, <1>2, <1>3, <1>4
     DEF Init, MailInv, MailIsToRows, CursorPassedBirth, TakenIsBehind, TakersHaveRows,
         NoneSkipped, HandedOutOnce

-----------------------------------------------------------------------------
(* The theorems *)

\* The strengthened invariant holds throughout.
THEOREM MailInvariant == Spec => []MailInv
<1>1. QED BY MailInvInit, MailInvStep, PTL DEF Spec

\* Mail, cursors and histories are well formed in every reachable state.
THEOREM MailTypeCorrect == Spec => []TypeOK
<1>1. MailInv => TypeOK
  BY DEF MailInv
<1>2. QED BY <1>1, MailInvariant, PTL

\* No default read ever hands out a message a second time.
THEOREM MailIsHandedOutOnce == Spec => []HandedOutOnce
<1>1. MailInv => HandedOutOnce
  BY DEF MailInv
<1>2. QED BY <1>1, MailInvariant, PTL

\* No default read hands out a message older than the agent's row.
THEOREM NewRowsReadNoHistory == Spec => []NoHistoricalMail
<1>1. MailInv => NoHistoricalMail
  <2>1. SUFFICES ASSUME MailInv, NEW a \in AgentIds, NEW e \in got[a] PROVE e > born[a]
    BY DEF NoHistoricalMail
  <2>2. born[a] < e /\ born[a] \in Nat /\ e \in Nat
    BY <2>1 DEF MailInv, TakenIsBehind, TypeOK, Events
  <2>3. QED BY <2>2
<1>2. QED BY <1>1, MailInvariant, PTL

\* A message addressed to a row is handed out, waiting, or past its retention.
THEOREM MailSkipsNothing == Spec => []NothingSkipped
<1>1. MailInv => NothingSkipped
  <2>1. SUFFICES ASSUME MailInv, NEW n \in Names, Exists(n), born[agents[n].id] > 0,
                        NEW e \in Events, agents[n].id \in mail[e].to
                 PROVE  e \in got[agents[n].id] \/ e \in Unread(n) \/ e <= purged
    BY DEF NothingSkipped
  <2>2. agents[n].id \in RowIds
    BY <2>1, RowIdsAreOld DEF MailInv
  <2>3. e \in got[agents[n].id] \/ e > cursor[agents[n].id] \/ e <= purged
    BY <2>1, <2>2 DEF MailInv, NoneSkipped
  <2>4. e \in Nat /\ purged \in Nat
    BY <2>1 DEF MailInv, TypeOK, Events
  <2>5. QED BY <2>1, <2>3, <2>4 DEF Unread, Addressed
<1>2. QED BY <1>1, MailInvariant, PTL

-----------------------------------------------------------------------------
(* Mailbox implements MailboxPromise *)

\* What waits for an agent and what it has taken, agent by agent.
LEMMA MailboxesAreFunctions ==
  /\ DOMAIN Waiting = AgentIds /\ DOMAIN Taken = AgentIds
  /\ Waiting = [a \in AgentIds |-> Waiting[a]]
  /\ Taken = [a \in AgentIds |-> Taken[a]]
BY DEF Waiting, Taken

\* Steps of the table close the mailboxes of the rows they delete, drop what
\* they purge, and leave the rest alone.
LEMMA RowsMoveExpires ==
  ASSUME MailInv, RowsMove
  PROVE  /\ Waiting' = [a \in AgentIds |->
                          IF a \in AgentIds \ RowIds' THEN {}
                          ELSE {e \in Waiting[a] : e > purged'}]
         /\ Taken' = [a \in AgentIds |->
                        IF a \in AgentIds \ RowIds' THEN {} ELSE Taken[a]]
<1>1. /\ mail' = mail
      /\ cursor' = Column(cursor, MaxEvent, 0)
      /\ got' = Column(got, {}, {})
      /\ purged \in Nat /\ purged' \in Nat /\ purged <= purged'
  BY DEF RowsMove, FollowRows, MailInv, TypeOK
<1>2. \A a \in RowIds' : a \in AgentIds /\ (a \in RowIds \/ a = nextId)
  BY RowsAreOldOrNew DEF MailInv, RowsMove
<1>3. \A e \in Events : nextId \notin mail[e].to
  BY RowIdsAreOld DEF MailInv, MailIsToRows
<1>4. ASSUME NEW a \in AgentIds
      PROVE  /\ Waiting'[a] = IF a \in RowIds' THEN {e \in Waiting[a] : e > purged'} ELSE {}
             /\ Taken'[a] = IF a \in RowIds' THEN Taken[a] ELSE {}
  <2>1. CASE a \notin RowIds'
    BY <1>1, <2>1 DEF Waiting, Taken, Column
  <2>2. CASE a \in RowIds' /\ a \in RowIds
    <3>1. cursor'[a] = cursor[a] /\ got'[a] = got[a]
      BY <1>1, <2>2 DEF Column
    <3>2. \A e \in Events : e \in Nat /\ (e > purged' => e > purged)
      BY <1>1 DEF Events
    <3>3. Waiting'[a] = {e \in Events : e > purged' /\ e > cursor[a] /\ a \in mail[e].to}
      BY <1>1, <2>2, <3>1 DEF Waiting, Events
    <3>4. Waiting[a] = {e \in Events : e > purged /\ e > cursor[a] /\ a \in mail[e].to}
      BY <2>2 DEF Waiting
    <3>5. Waiting'[a] = {e \in Waiting[a] : e > purged'}
      BY <3>2, <3>3, <3>4
    <3>6. Taken'[a] = Taken[a]
      BY <1>1, <3>1 DEF Taken
    <3>7. QED BY <2>2, <3>5, <3>6
  <2>3. CASE a \in RowIds' /\ a \notin RowIds
    <3>1. a = nextId /\ \A e \in Events : a \notin mail[e].to
      BY <1>2, <1>3, <2>3
    <3>2. got[a] = {} /\ got'[a] = {}
      BY <1>1, <2>3 DEF Column, MailInv, TakersHaveRows
    <3>3. Waiting[a] = {} /\ Waiting'[a] = {}
      BY <1>1, <2>3, <3>1 DEF Waiting, Events
    <3>4. Taken[a] = {} /\ Taken'[a] = {}
      BY <3>2 DEF Taken
    <3>5. QED BY <2>3, <3>3, <3>4
  <2>4. QED BY <2>1, <2>2, <2>3
<1>5. Waiting' = [a \in AgentIds |-> Waiting'[a]] /\ Taken' = [a \in AgentIds |-> Taken'[a]]
  BY DEF Waiting, Taken
<1>6. QED BY <1>4, <1>5

LEMMA ExpiryIsPromised ==
  ASSUME MailInv, RowsMove, aged' = aged
  PROVE  \E k \in 0 .. aged, S \in SUBSET AgentIds : Promise!Expire(k, S)
<1>1. purged' \in 0 .. aged
  BY DEF RowsMove, MailInv, TypeOK
<1>2. Len(mail') = Len(mail)
  BY DEF RowsMove, FollowRows
<1>3. Promise!Expire(purged', AgentIds \ RowIds')
  BY <1>2, RowsMoveExpires DEF Promise!Expire
<1>4. QED BY <1>1, <1>3

\* A month closes no mailbox.
LEMMA AgeIsPromised ==
  ASSUME MailInv, TimePasses
  PROVE  Promise!Age
<1>1. RowsMove
  <2>1. /\ aged \in Nat /\ purged \in Nat /\ Len(mail) \in Nat
        /\ purged <= aged /\ aged <= Len(mail)
    BY WatermarkBounds DEF MailInv, TypeOK
  <2>2. QED BY <2>1 DEF TimePasses, RegistryNext, RowsMove
<1>2. RowIds' = RowIds
  <2>1. \A n \in Names : agents'[n].id = agents[n].id
    BY DEF TimePasses, MonthPasses, MailInv, RegistryInv, TableOK, Row
  <2>2. QED BY <2>1 DEF RowIds, Ids, Exists
<1>3. \A a \in AgentIds \ RowIds : Waiting[a] = {} /\ Taken[a] = {}
  BY DEF Waiting, Taken, MailInv, TakersHaveRows
<1>4. \A a \in RowIds : a \in AgentIds /\ {e \in Waiting[a] : e > purged} = Waiting[a]
  BY RowIdsAreOld DEF MailInv, Waiting
<1>5. purged' = purged /\ aged' = Len(mail) /\ mail' = mail
  BY DEF TimePasses, FollowRows
<1>6. Waiting' = [a \in AgentIds |-> Waiting[a]] /\ Taken' = [a \in AgentIds |-> Taken[a]]
  <2>1. \A a \in AgentIds :
          /\ (IF a \in AgentIds \ RowIds' THEN {} ELSE {e \in Waiting[a] : e > purged'}) = Waiting[a]
          /\ (IF a \in AgentIds \ RowIds' THEN {} ELSE Taken[a]) = Taken[a]
    BY <1>2, <1>3, <1>4, <1>5
  <2>2. QED BY <1>1, <2>1, RowsMoveExpires
<1>7. QED BY <1>5, <1>6, MailboxesAreFunctions DEF Promise!Age

LEMMA PostIsPromised ==
  ASSUME MailInv, NEW S \in SUBSET Names, NEW role \in Roles \cup {None},
         \A n \in S : Exists(n), Insert(S, role)
  PROVE  \E R \in SUBSET AgentIds : Promise!Post(R)
<1>1. /\ Ids(S) \subseteq RowIds
      /\ Len(mail) \in Nat /\ Len(mail') = Len(mail) + 1
      /\ \A e \in Events : mail'[e] = mail[e]
      /\ mail'[Len(mail) + 1].to = Ids(S)
  BY InsertAddsOne
<1>2. UNCHANGED <<agents, aged, purged, cursor, got>>
  BY DEF Insert, registryVars, historyVars
<1>3. RowIds' = RowIds /\ \A a \in RowIds : a \in AgentIds
  BY <1>2, RowIdsAreOld DEF MailInv, RowIds, Ids, Exists
<1>4. Events' = Events \cup {Len(mail) + 1} /\ Len(mail) + 1 \notin Events
  BY <1>1 DEF Events
<1>5. \A a \in AgentIds : got[a] \subseteq Events
                         /\ Len(mail) + 1 > cursor[a] /\ Len(mail) + 1 > purged
  BY <1>1 DEF MailInv, TypeOK
<1>6. ASSUME NEW a \in AgentIds
      PROVE  /\ Waiting'[a] = Waiting[a] \cup (IF a \in Ids(S) THEN {Len(mail')} ELSE {})
             /\ Taken'[a] = Taken[a]
  <2>1. Taken'[a] = Taken[a]
    BY <1>1, <1>2, <1>5 DEF Taken
  <2>2. CASE a \notin RowIds
    BY <1>1, <1>3, <2>1, <2>2 DEF Waiting
  <2>3. CASE a \in RowIds
    <3>1. Waiting'[a] = {e \in Events' : e > purged /\ e > cursor[a] /\ a \in mail'[e].to}
      BY <1>2, <1>3, <2>3 DEF Waiting
    <3>2. Waiting[a] = {e \in Events : e > purged /\ e > cursor[a] /\ a \in mail[e].to}
      BY <2>3 DEF Waiting
    <3>3. QED BY <1>1, <1>4, <1>5, <2>1, <3>1, <3>2
  <2>4. QED BY <2>2, <2>3
<1>7. /\ Waiting' = [a \in AgentIds |-> Waiting'[a]]
      /\ Taken' = [a \in AgentIds |-> Taken'[a]]
      /\ Taken = [a \in AgentIds |-> Taken[a]]
  BY DEF Waiting, Taken
<1>8. Taken' = Taken
  BY <1>6, <1>7
<1>9. Waiting' = [a \in AgentIds |->
                    Waiting[a] \cup (IF a \in Ids(S) THEN {Len(mail')} ELSE {})]
  BY <1>6, <1>7
<1>10. Promise!Post(Ids(S))
  BY <1>1, <1>2, <1>8, <1>9 DEF Promise!Post
<1>11. QED BY <1>1, <1>3, <1>10

LEMMA TakeIsPromised ==
  ASSUME MailInv, NEW n \in Names, NEW c \in Events, Read(n, c)
  PROVE  \E a \in AgentIds : \E k \in 1 .. Len(mail) : Promise!Take(a, k)
<1>1. PICK a : a = agents[n].id
  OBVIOUS
<1>2. PICK page : page = {e \in Unread(n) : e <= c}
  OBVIOUS
<1>3. /\ Exists(n) /\ c \in Unread(n)
      /\ cursor' = [cursor EXCEPT ![a] = c]
      /\ got' = [got EXCEPT ![a] = @ \cup page]
      /\ UNCHANGED <<agents, nextId, mail, aged, purged>>
  BY <1>1, <1>2 DEF Read, registryVars
<1>4. a \in AgentIds /\ a \in RowIds
  BY <1>1, <1>3, RowIdsAreOld DEF MailInv
<1>5. RowIds' = RowIds /\ Events' = Events
  BY <1>3 DEF RowIds, Ids, Exists, Events
<1>6. \A b \in AgentIds :
        /\ cursor'[b] = IF b = a THEN c ELSE cursor[b]
        /\ got'[b] = IF b = a THEN got[b] \cup page ELSE got[b]
  BY <1>3 DEF MailInv, TypeOK
<1>7. Len(mail) \in Nat /\ c \in Nat /\ cursor[a] \in Nat /\ c > cursor[a]
  BY <1>1, <1>3, <1>4, WatermarkBounds DEF MailInv, TypeOK, Unread, Events
<1>8. PICK batch : batch = {e \in Waiting[a] : e <= c}
  OBVIOUS
<1>9. Waiting[a] = {e \in Events : e > purged /\ e > cursor[a] /\ a \in mail[e].to}
  BY <1>4 DEF Waiting
<1>10. batch = {e \in page : a \in mail[e].to}
  BY <1>1, <1>2, <1>8, <1>9 DEF Unread, Addressed
<1>11. Waiting'[a] = Waiting[a] \ batch
  <2>1. Waiting'[a] = {e \in Events : e > purged /\ e > c /\ a \in mail[e].to}
    BY <1>3, <1>4, <1>5, <1>6 DEF Waiting
  <2>2. \A e \in Events : e > c => e > cursor[a]
    BY <1>7 DEF Events
  <2>3. \A e \in Events : e > c <=> ~(e <= c)
    BY <1>7 DEF Events
  <2>4. QED BY <1>8, <1>9, <2>1, <2>2, <2>3
<1>12. Taken'[a] = Taken[a] \cup batch
  <2>1. Taken[a] = {e \in got[a] : a \in mail[e].to}
    BY <1>4 DEF Taken
  <2>2. Taken'[a] = {e \in got[a] \cup page : a \in mail[e].to}
    BY <1>3, <1>4, <1>6 DEF Taken
  <2>3. QED BY <1>10, <2>1, <2>2
<1>13. \A b \in AgentIds \ {a} : Waiting'[b] = Waiting[b] /\ Taken'[b] = Taken[b]
  BY <1>3, <1>5, <1>6 DEF Waiting, Taken
<1>14. /\ Waiting' = [b \in AgentIds |-> Waiting'[b]]
       /\ Taken' = [b \in AgentIds |-> Taken'[b]]
  BY DEF Waiting, Taken
<1>15. Waiting' = [Waiting EXCEPT ![a] = @ \ batch] /\ Taken' = [Taken EXCEPT ![a] = @ \cup batch]
  BY <1>4, <1>11, <1>12, <1>13, <1>14, MailboxesAreFunctions
<1>16. Promise!Take(a, c)
  BY <1>3, <1>8, <1>15 DEF Promise!Take
<1>17. QED BY <1>4, <1>16 DEF Events

\* A restart drops mail only of agents that have been handed nothing.
LEMMA BootIsPromised ==
  ASSUME MailInv, Restart
  PROVE  \E S \in SUBSET AgentIds : Promise!Boot(S)
<1>1. PICK S : S = {a \in RowIds : cursor[a] = 0}
  OBVIOUS
<1>2. UNCHANGED <<agents, nextId, mail, aged, purged, got>>
  BY DEF Restart, registryVars, historyVars
<1>3. RowIds' = RowIds /\ Events' = Events /\ RowIds \subseteq AgentIds /\ S \subseteq AgentIds
  BY <1>1, <1>2, RowIdsAreOld DEF MailInv, RowIds, Ids, Exists, Events
<1>4. \A a \in AgentIds : cursor'[a] = IF a \in S THEN MaxEvent ELSE cursor[a]
  BY <1>1 DEF Restart
<1>5. \A a \in S : Taken[a] = {}
  <2>1. \A a \in S : \A e \in got[a] : e \in Nat \ {0} /\ e <= 0
    BY <1>1, <1>3 DEF MailInv, TakenIsBehind, TypeOK, Events
  <2>2. \A a \in S : got[a] = {}
    BY <2>1
  <2>3. QED BY <1>3, <2>2 DEF Taken
<1>6. \A a \in S : Waiting'[a] = {}
  <2>1. \A e \in Events : ~(e > purged /\ e > MaxEvent)
    BY WatermarkBounds DEF MailInv, Events
  <2>2. QED BY <1>2, <1>3, <1>4, <2>1 DEF Waiting
<1>7. \A a \in AgentIds \ S : Waiting'[a] = Waiting[a]
  BY <1>2, <1>3, <1>4 DEF Waiting
<1>8. Waiting' = [a \in AgentIds |-> Waiting'[a]] /\ Taken' = Taken
  BY <1>2 DEF Waiting, Taken
<1>9. Waiting' = [a \in AgentIds |-> IF a \in S THEN {} ELSE Waiting[a]]
  BY <1>6, <1>7, <1>8
<1>10. Promise!Boot(S)
  BY <1>2, <1>5, <1>8, <1>9 DEF Promise!Boot
<1>11. QED BY <1>3, <1>10

LEMMA InitIsPromised == Init => Promise!PromiseInit
<1>1. SUFFICES ASSUME Init PROVE Promise!PromiseInit
  OBVIOUS
<1>2. Len(mail) = 0 /\ aged = 0
  BY <1>1 DEF Init
<1>3. Waiting = [a \in AgentIds |-> {}] /\ Taken = [a \in AgentIds |-> {}]
  BY <1>1, <1>2 DEF Init, Waiting, Taken, Events
<1>4. QED BY <1>2, <1>3 DEF Promise!PromiseInit

LEMMA StepIsPromised ==
  ASSUME MailInv, [Next]_vars
  PROVE  [Promise!PromiseNext]_(Promise!promiseVars)
<1>1. CASE RowsMove
  <2>1. CASE aged' = aged
    BY <1>1, <2>1, ExpiryIsPromised DEF Promise!PromiseNext
  <2>2. CASE aged' # aged
    <3>1. TimePasses
      BY <2>2 DEF Next, RegistryStep, Send, Broadcast, BroadcastToRole, Insert, Read, Cleanup,
                  Restart, vars, mailVars
    <3>2. QED BY <3>1, AgeIsPromised DEF Promise!PromiseNext
  <2>3. QED BY <2>1, <2>2
<1>2. ASSUME NEW S \in SUBSET Names, NEW role \in Roles \cup {None},
             \A n \in S : Exists(n), Insert(S, role)
      PROVE  Promise!PromiseNext
  BY <1>2, PostIsPromised DEF Promise!PromiseNext
<1>3. ASSUME NEW n \in Names, NEW c \in Events, Read(n, c)
      PROVE  Promise!PromiseNext
  BY <1>3, TakeIsPromised DEF Promise!PromiseNext
<1>4. CASE Restart
  BY <1>4, BootIsPromised DEF Promise!PromiseNext
<1>5. CASE UNCHANGED vars
  BY <1>5 DEF vars, registryVars, mailVars, historyVars, Promise!promiseVars, Waiting, Taken,
              Events, RowIds, Ids, Exists
<1>6. QED BY <1>1, <1>2, <1>3, <1>4, <1>5, StepKinds

\* The table, its cursors, paging, takeover, reaping, cleanup and restarts
\* implement the promise of a mailbox.
THEOREM MailboxImplementsPromise == Spec => KeepsPromise
<1>1. MailInv /\ [Next]_vars => [Promise!PromiseNext]_(Promise!promiseVars)
  BY StepIsPromised
<1>2. QED
  BY <1>1, InitIsPromised, MailInvariant, PTL DEF Spec, KeepsPromise, Promise!PromiseSpec

-----------------------------------------------------------------------------
(* The plugins: the invariant *)

PluginCalls ==
  [proc : Processes, op : {"register", "claim", "deregister"}, tab : Tabs,
   q : Request \cup {None}, prev : Nat, orphan : BOOLEAN]

PluginsTypes ==
  /\ setup \in [Processes -> [harness : {"v1", "v2", "pi"}, pinned : BOOLEAN]]
  /\ stage \in [Processes -> {"off", "loading", "on", "closed"}]
  /\ key \in [Processes -> Sessions \cup {None}]
  /\ own \in [Processes -> [Tabs -> Identity]]
  /\ listed \in [Processes -> SUBSET Sessions] /\ timer \in [Processes -> BOOLEAN]
  /\ bound \in [Sessions \cup {None} -> Names \cup {None}]
  /\ calls \subseteq PluginCalls
  /\ \A c \in calls : c.op # "deregister" => c.q \in Request
  /\ faults \in Nat
  /\ given \in [Processes -> SUBSET (Nat \ {0})] /\ excused \in [Processes -> BOOLEAN]

\* Ids are those of rows, and never of two.
RowsOK == TableOK /\ IdsAreFresh /\ IdsAreUnique

\* No plugin knows of an id that the daemon did not give.
Known(p) ==
  /\ \A t \in Tabs : own[p][t].id < nextId
  /\ \A i \in given[p] : i < nextId

\* A plugin asks for a name, and before it is loaded it has no agent.
Staged(p) ==
  /\ timer[p] \/ stage[p] = "loading" => own[p][Solo].name \in Names
  /\ \A s \in listed[p] : own[p][s].name \in Names
  /\ stage[p] = "off" => /\ \A t \in Tabs : own[p][t].id = 0
                         /\ ~timer[p] /\ \A c \in calls : c.proc # p
  /\ stage[p] # "on" \/ harness[p] # "v2" => listed[p] = {}
  /\ harness[p] = "v2" => ~timer[p] /\ stage[p] # "loading"

Agrees(p) ==
  harness[p] # "v1" => \A t \in Tabs : \A n \in RowOf(own[p][t].id) : own[p][t].name = n

Spared(p) == harness[p] = "v2" /\ ~excused[p] /\ faults = 0

\* Requests under way are for sessions that are there: one registration for
\* one without an agent, claims for those that have one.  Registrations of a
\* plugin that was closed are let go.
TidyCall(p, c) ==
  /\ c.op = "register" => IF c.orphan THEN stage[p] = "closed"
                          ELSE c.tab \in listed[p] /\ own[p][c.tab].id = 0
  /\ c.op = "claim" => ~c.orphan /\ c.tab \in listed[p] /\ own[p][c.tab].id # 0

Tidy(p) ==
  Spared(p) =>
    /\ \A c \in calls : c.proc = p => TidyCall(p, c)
    /\ \A c, e \in calls :
         /\ c.proc = p /\ c.op = "register" /\ ~c.orphan
         /\ e.proc = p /\ e.op = "register" /\ ~e.orphan /\ e.tab = c.tab
         => e = c

\* Id i, which was given to p: one of its agents, about to go, or another's too.
Accounted(p, i) ==
  \/ \E s \in listed[p] : own[p][s].id = i
  \/ \E c \in calls : c.proc = p /\ c.op = "deregister" /\ c.prev = i
  \/ \E r \in Processes \ {p} : i \in given[r]

Kept(p) == Spared(p) => \A n \in Names : agents[n].id \in given[p] => Accounted(p, agents[n].id)

PluginOK(p) == Known(p) /\ Staged(p) /\ Agrees(p) /\ Tidy(p) /\ Kept(p)

PluginsInv == PluginsTypes /\ RowsOK /\ \A p \in Processes : PluginOK(p)

-----------------------------------------------------------------------------
(* The plugins: rows and requests *)

LEMMA PluginConstants ==
  /\ Sessions \subseteq Keys /\ Solo \notin Sessions /\ None \notin Sessions
  /\ Tabs = Sessions \cup {Solo} /\ Wanted \subseteq Names /\ (CHOOSE n \in Wanted : TRUE) \in Names
  /\ \A p \in Processes : Opens[p] \subseteq Sessions /\ Placeholder[p] \in Names
  /\ \A s \in Sessions : Base[s] \in Names
  /\ "worker" \in Roles
BY PluginsAssumption, KeysAssumption DEF PluginsAssumption, KeysAssumption, Sessions, Keys, Tabs

LEMMA PluginsInitially == PluginsInit => PluginsInv
<1> SUFFICES ASSUME PluginsInit PROVE PluginsInv
  OBVIOUS
<1>1. RegistryInit
  BY DEF PluginsInit
<1>2. RowsOK
  BY <1>1, AbsentIsRow, MaxAgentsAssumption
     DEF RegistryInit, RowsOK, TableOK, IdsAreFresh, IdsAreUnique, Exists, Absent
<1>3. PluginsTypes
  <2>1. setup \in [Processes -> [harness : {"v1", "v2", "pi"}, pinned : BOOLEAN]]
    BY PluginsAssumption DEF PluginsInit, PluginsAssumption
  <2>2. Unknown \in Identity
    BY DEF Unknown, Identity
  <2>3. QED BY <2>1, <2>2 DEF PluginsInit, PluginsTypes
<1>4. ASSUME NEW p \in Processes PROVE PluginOK(p)
  <2>1. /\ \A t \in Tabs : own[p][t].id = 0
        /\ stage[p] = "off" /\ timer[p] = FALSE /\ listed[p] = {} /\ given[p] = {} /\ calls = {}
    BY DEF PluginsInit, Unknown
  <2>2. nextId = 1
    BY <1>1 DEF RegistryInit
  <2>3. Known(p) /\ Staged(p) /\ Tidy(p) /\ Kept(p)
    BY <2>1, <2>2 DEF Known, Staged, Tidy, Kept
  <2>4. Agrees(p)
    BY <2>1 DEF Agrees, RowOf
  <2>5. QED BY <2>3, <2>4 DEF PluginOK
<1>5. QED BY <1>2, <1>3, <1>4 DEF PluginsInv

\* A row keeps its id, goes, or is written with the next one.
IdsMove ==
  /\ nextId \in Nat /\ nextId' \in Nat /\ nextId <= nextId'
  /\ \A n \in Names : agents[n].id \in Nat /\ agents'[n].id \in {0, agents[n].id, nextId}

LEMMA RowsUnchanged ==
  ASSUME RowsOK, UNCHANGED registryVars
  PROVE  RowsOK' /\ IdsMove
BY MaxAgentsAssumption
   DEF RowsOK, TableOK, IdsAreFresh, IdsAreUnique, Exists, registryVars, IdsMove, Row

\* Heartbeats, time, the reaper and deregistration give no id away.
LEMMA RowsRewritten ==
  ASSUME RowsOK, UNCHANGED nextId, agents' \in [Names -> Row],
         \A n \in Names : agents'[n].id \in {0, agents[n].id}
  PROVE  RowsOK' /\ IdsMove
<1>1. nextId \in 1..MaxAgents + 1 /\ MaxAgents \in Nat /\ agents \in [Names -> Row]
  BY MaxAgentsAssumption DEF RowsOK, TableOK
<1>2. \A n \in Names : agents[n].id \in Nat /\ agents'[n].id \in Nat
  BY <1>1 DEF Row
<1>3. TableOK'
  BY <1>1 DEF TableOK
<1>4. IdsAreFresh'
  BY <1>1, <1>2 DEF RowsOK, IdsAreFresh
<1>5. IdsAreUnique'
  BY <1>2 DEF RowsOK, IdsAreUnique, Exists
<1>6. IdsMove
  BY <1>1, <1>2 DEF IdsMove
<1>7. QED BY <1>3, <1>4, <1>5, <1>6 DEF RowsOK

LEMMA RowsWritten ==
  ASSUME RowsOK, NEW q \in Request, NEW n \in Names, WriteRow(n, q)
  PROVE  /\ RowsOK' /\ IdsMove
         /\ agents'[n].id \in Nat \ {0} /\ agents'[n].id < nextId'
<1>1. nextId \in 1..MaxAgents + 1 /\ MaxAgents \in Nat /\ agents \in [Names -> Row] /\ agents[n] \in Row
  BY MaxAgentsAssumption DEF RowsOK, TableOK
<1>2. \A m \in Names : agents[m].id \in Nat
  BY <1>1 DEF Row
<1>3. CASE Exists(n)
  <2>1. agents' = [agents EXCEPT ![n] = Updated(@, q)] /\ nextId' = nextId
    BY <1>3 DEF WriteRow
  <2>2. Updated(agents[n], q) \in Row /\ Updated(agents[n], q).id = agents[n].id
    BY <1>1 DEF Updated, Row, Request
  <2>3. agents' \in [Names -> Row] /\ \A m \in Names : agents'[m].id = agents[m].id
    BY <1>1, <2>1, <2>2
  <2>4. RowsOK' /\ IdsMove
    BY <2>1, <2>3, RowsRewritten
  <2>5. agents[n].id < nextId /\ agents[n].id # 0
    BY <1>3 DEF RowsOK, IdsAreFresh, Exists
  <2>6. QED BY <1>2, <2>1, <2>3, <2>4, <2>5
<1>4. CASE ~Exists(n)
  <2>1. agents' = [agents EXCEPT ![n] = Inserted(q)] /\ nextId' = nextId + 1 /\ nextId <= MaxAgents
    BY <1>4 DEF WriteRow
  <2>2. Inserted(q) \in Row /\ Inserted(q).id = nextId
    BY <1>1 DEF Inserted, Row, Request
  <2>3. agents' \in [Names -> Row] /\ \A m \in Names : agents'[m].id = IF m = n THEN nextId ELSE agents[m].id
    BY <1>1, <2>1, <2>2
  <2>4. \A m \in Names : agents[m].id < nextId
    BY DEF RowsOK, IdsAreFresh
  <2>5. TableOK'
    BY <1>1, <2>1, <2>3 DEF TableOK
  <2>6. IdsAreFresh'
    BY <1>1, <1>2, <2>1, <2>3, <2>4 DEF IdsAreFresh
  <2>7. IdsAreUnique'
    BY <1>1, <1>2, <2>3, <2>4 DEF RowsOK, IdsAreUnique, Exists
  <2>8. IdsMove
    BY <1>1, <1>2, <2>1, <2>3 DEF IdsMove
  <2>9. agents'[n].id = nextId
    BY <2>3
  <2>10. QED BY <1>1, <2>1, <2>5, <2>6, <2>7, <2>8, <2>9 DEF RowsOK
<1>5. QED BY <1>3, <1>4

\* What another process does is nothing to p, but for rows that go.
LEMMA OthersStay ==
  ASSUME PluginsInv, NEW p \in Processes, IdsMove, UNCHANGED setup,
         stage'[p] = stage[p], own'[p] = own[p], listed'[p] = listed[p], timer'[p] = timer[p],
         excused'[p] = excused[p], given'[p] = given[p],
         faults' = 0 => faults = 0,
         \A c : c.proc = p => (c \in calls' <=> c \in calls),
         \A r \in Processes : given[r] \subseteq given'[r]
  PROVE  PluginOK(p)'
<1>1. /\ own[p] \in [Tabs -> Identity] /\ given[p] \in SUBSET (Nat \ {0})
      /\ \A t \in Tabs : own[p][t].id \in Nat
  BY DEF PluginsInv, PluginsTypes, Identity
<1>2. PluginOK(p)
  BY DEF PluginsInv
<1>3. harness' = harness
  BY DEF harness
<1>4. \A i \in Nat \ {0} : i < nextId => \A n \in Names : agents'[n].id = i => agents[n].id = i
  BY DEF IdsMove
<1>5. Known(p)'
  BY <1>1, <1>2 DEF PluginOK, Known, IdsMove
<1>6. Staged(p)'
  BY <1>2, <1>3 DEF PluginOK, Staged
<1>7. Agrees(p)'
  <2>1. ASSUME NEW t \in Tabs, NEW n \in Names, n \in RowOf(own[p][t].id)' PROVE n \in RowOf(own[p][t].id)
    BY <1>1, <1>2, <1>4, <2>1 DEF PluginOK, Known, RowOf
  <2>2. \A t \in Tabs : RowOf(own[p][t].id)' \subseteq Names
    BY DEF RowOf
  <2>3. QED BY <1>2, <1>3, <2>1, <2>2 DEF PluginOK, Agrees
<1>8. Spared(p)' => Spared(p)
  BY <1>3 DEF Spared
<1>9. Tidy(p)'
  <2>1. \A c : TidyCall(p, c)' <=> TidyCall(p, c)
    BY DEF TidyCall
  <2>2. QED BY <1>2, <1>8, <2>1 DEF PluginOK, Tidy
<1>10. Kept(p)'
  <2>1. SUFFICES ASSUME Spared(p)', NEW n \in Names, agents'[n].id \in given[p]
                 PROVE  Accounted(p, agents[n].id)'
    BY DEF Kept
  <2>2. agents'[n].id = agents[n].id
    BY <1>1, <1>2, <1>4, <2>1 DEF PluginOK, Known
  <2>3. Accounted(p, agents[n].id)
    BY <1>2, <1>8, <2>1, <2>2 DEF PluginOK, Kept
  <2>4. QED BY <2>2, <2>3 DEF Accounted
<1>11. QED BY <1>5, <1>6, <1>7, <1>9, <1>10 DEF PluginOK

\* A step of p: the others are as they were.
LEMMA ActorStep ==
  ASSUME PluginsInv, NEW p \in Processes, PluginsTypes', RowsOK', IdsMove, UNCHANGED setup,
         \A r \in Processes \ {p} :
           /\ stage'[r] = stage[r] /\ own'[r] = own[r] /\ listed'[r] = listed[r]
           /\ timer'[r] = timer[r] /\ excused'[r] = excused[r] /\ given'[r] = given[r],
         faults' = 0 => faults = 0,
         \A c : c.proc # p => (c \in calls' <=> c \in calls),
         given[p] \subseteq given'[p],
         PluginOK(p)'
  PROVE  PluginsInv'
<1>1. \A r \in Processes : given[r] \subseteq given'[r]
  OBVIOUS
<1>2. ASSUME NEW r \in Processes \ {p} PROVE PluginOK(r)'
  BY <1>1, <1>2, OthersStay
<1>3. QED BY <1>2 DEF PluginsInv

\* A step that touches only rows, and by no one's id.
LEMMA RowsStep ==
  ASSUME PluginsInv, RowsOK', IdsMove, UNCHANGED <<setup, procVars, calls, bound, pastVars>>,
         faults' \in Nat, faults' = 0 => faults = 0
  PROVE  PluginsInv'
<1>1. UNCHANGED <<stage, key, own, listed, timer, given, excused>>
  BY DEF procVars, pastVars
<1>2. PluginsTypes'
  BY <1>1 DEF PluginsInv, PluginsTypes
<1>3. ASSUME NEW p \in Processes PROVE PluginOK(p)'
  BY <1>1, OthersStay
<1>4. QED BY <1>2, <1>3 DEF PluginsInv

\* Requests are well formed.
LEMMA AskOK ==
  ASSUME NEW i \in Identity, i.name \in Names, NEW s \in Sessions \cup {None}
  PROVE  Ask(i, s) \in Request
BY PluginConstants DEF Ask, Request, Kinds, Identity

LEMMA RegisteringOK ==
  ASSUME NEW p \in Processes, NEW t \in Tabs, NEW i, NEW s, NEW prev \in Nat, Ask(i, s) \in Request
  PROVE  /\ Registering(p, t, i, s, prev) \in PluginCalls
         /\ Registering(p, t, i, s, prev).q \in Request
         /\ Registering(p, t, i, s, prev).proc = p
         /\ Registering(p, t, i, s, prev).op = "register" /\ Registering(p, t, i, s, prev).tab = t
         /\ Registering(p, t, i, s, prev).orphan = FALSE
BY DEF Registering, Call, PluginCalls

LEMMA LeaveOK ==
  ASSUME NEW p \in Processes, NEW ids \in SUBSET Nat
  PROVE  /\ Leave(p, ids) \subseteq PluginCalls
         /\ \A c \in Leave(p, ids) : c.proc = p /\ c.op = "deregister"
         /\ \A i \in ids \ {0} : \E c \in Leave(p, ids) : c.proc = p /\ c.op = "deregister" /\ c.prev = i
<1>1. Solo \in Tabs
  BY PluginConstants
<1>2. ASSUME NEW i \in ids \ {0}
      PROVE  /\ Deregistering(p, i) \in PluginCalls /\ Deregistering(p, i).proc = p
             /\ Deregistering(p, i).op = "deregister" /\ Deregistering(p, i).prev = i
  BY <1>1 DEF Deregistering, Call, PluginCalls
<1>3. QED BY <1>2 DEF Leave

-----------------------------------------------------------------------------
(* The plugins: OpenCode v1 and Pi *)

LEMMA ResolvedOK ==
  ASSUME PluginsInv, NEW p \in Processes, NEW s \in Sessions \cup {None}
  PROVE  /\ Resolved(p, s) \in Identity /\ Resolved(p, s).name \in Names
         /\ Resolved(p, s).id = own[p][Solo].id
<1>1. own[p][Solo].id \in Nat /\ setup[p].pinned \in BOOLEAN /\ bound[s] \in Names \cup {None}
  BY PluginConstants DEF PluginsInv, PluginsTypes, Identity
<1>2. (CHOOSE n \in Wanted : TRUE) \in Names /\ Placeholder[p] \in Names /\ (s # None => Base[s] \in Names)
  BY PluginConstants
<1>3. CASE setup[p].pinned
  BY <1>1, <1>2, <1>3 DEF Resolved, Identity
<1>4. CASE ~setup[p].pinned /\ bound[s] # None
  BY <1>1, <1>2, <1>4 DEF Resolved, Identity
<1>5. CASE ~setup[p].pinned /\ bound[s] = None
  <2>1. Resolved(p, s) = [id |-> own[p][Solo].id, mode |-> "prefer",
                          name |-> IF s = None THEN Placeholder[p] ELSE Base[s]]
    BY <1>5 DEF Resolved
  <2>2. QED BY <1>1, <1>2, <2>1 DEF Identity
<1>6. QED BY <1>1, <1>3, <1>4, <1>5

\* The agent of v1 and Pi asks for a name, and keeps the id it has.
LEMMA SoloAsks ==
  ASSUME PluginsInv, NEW p \in Processes, NEW s \in Sessions \cup {None}, NEW prev \in Nat,
         harness[p] # "v2", harness[p] = "pi" => stage[p] = "off",
         UNCHANGED <<registryVars, setup, listed, timer, bound, faults, pastVars>>,
         stage' \in {stage, [stage EXCEPT ![p] = "loading"]}, stage'[p] \in {"loading", "on"},
         listed[p] = {},
         key' = [key EXCEPT ![p] = s], own' = [own EXCEPT ![p][Solo] = Resolved(p, s)],
         calls' = calls \cup {Registering(p, Solo, Resolved(p, s), s, prev)}
  PROVE  PluginsInv'
<1>1. Solo \in Tabs
  BY PluginConstants
<1> DEFINE i == Resolved(p, s)
           c0 == Registering(p, Solo, i, s, prev)
<1>2. i \in Identity /\ i.name \in Names /\ i.id = own[p][Solo].id
  BY ResolvedOK
<1> HIDE DEF i
<1>3. c0 \in PluginCalls /\ c0.q \in Request /\ c0.proc = p
  <2>1. Ask(i, s) \in Request
    BY <1>2, AskOK
  <2>2. /\ Registering(p, Solo, i, s, prev) \in PluginCalls
        /\ Registering(p, Solo, i, s, prev).q \in Request /\ Registering(p, Solo, i, s, prev).proc = p
    BY <1>1, <2>1 DEF Registering, Call, PluginCalls
  <2>3. QED BY <2>2
<1>4. PluginsTypes
  BY DEF PluginsInv
<1> HIDE DEF c0
<1>5. /\ own' \in [Processes -> [Tabs -> Identity]] /\ \A r \in Processes \ {p} : own'[r] = own[r]
      /\ own'[p][Solo] = i /\ \A t \in Tabs : own'[p][t].id = own[p][t].id
  BY <1>1, <1>2, <1>4 DEF PluginsTypes, i
<1>6. UNCHANGED <<given, excused>> /\ RowsOK' /\ IdsMove /\ nextId' = nextId /\ agents' = agents
  BY RowsUnchanged DEF PluginsInv, pastVars, registryVars
<1>7. PluginsTypes'
  <2>1. stage' \in [Processes -> {"off", "loading", "on", "closed"}]
    BY <1>4 DEF PluginsTypes
  <2>2. key' \in [Processes -> Sessions \cup {None}]
    BY <1>4 DEF PluginsTypes
  <2>3. calls' \subseteq PluginCalls /\ \A c \in calls' : c.op # "deregister" => c.q \in Request
    BY <1>3, <1>4 DEF PluginsTypes, c0, i
  <2>4. QED BY <1>4, <1>5, <1>6, <2>1, <2>2, <2>3 DEF PluginsTypes
<1>8. PluginOK(p)'
  <2>1. PluginOK(p) /\ harness' = harness
    BY DEF PluginsInv, harness
  <2>2. Known(p)'
    BY <1>5, <1>6, <2>1 DEF PluginOK, Known
  <2>3. Staged(p)'
    BY <1>2, <1>5, <2>1 DEF Staged
  <2>4. Agrees(p)'
    <3>1. CASE harness[p] = "v1"
      BY <2>1, <3>1 DEF Agrees
    <3>2. CASE harness[p] = "pi"
      BY <1>5, <2>1, <3>2 DEF PluginOK, Staged, Agrees, RowOf
    <3>3. harness[p] \in {"v1", "v2", "pi"}
      BY <1>4 DEF PluginsTypes, harness
    <3>4. QED BY <3>1, <3>2, <3>3
  <2>5. ~Spared(p)'
    BY <2>1 DEF Spared
  <2>6. QED BY <2>2, <2>3, <2>4, <2>5 DEF PluginOK, Tidy, Kept
<1>9. \A c : c.proc # p => (c \in calls' <=> c \in calls)
  BY <1>3 DEF c0, i
<1>10. \A r \in Processes \ {p} : stage'[r] = stage[r]
  BY <1>4 DEF PluginsTypes
<1>11. QED BY <1>5, <1>6, <1>7, <1>8, <1>9, <1>10, ActorStep

LEMMA SoloAsksStep ==
  ASSUME PluginsInv, NEW p \in Processes,
         \/ \E s \in Opens[p] \cup {None} : V1Load(p, s)
         \/ \E s \in Opens[p] : V1Event(p, s) \/ PiStart(p, s)
  PROVE  PluginsInv'
<1>1. PICK s \in Opens[p] \cup {None} : V1Load(p, s) \/ V1Event(p, s) \/ PiStart(p, s)
  OBVIOUS
<1>2. s \in Sessions \cup {None} /\ own[p][Solo].id \in Nat /\ 0 \in Nat
  BY PluginConstants DEF PluginsInv, PluginsTypes, Identity
<1>3. listed[p] = {} /\ stage \in [Processes -> {"off", "loading", "on", "closed"}]
  <2>1. harness[p] # "v2"
    BY <1>1 DEF V1Load, V1Event, PiStart
  <2>2. QED BY <2>1 DEF PluginsInv, PluginOK, Staged, PluginsTypes
<1>4. CASE V1Load(p, s)
  BY <1>2, <1>3, <1>4, SoloAsks DEF V1Load
<1>5. CASE V1Event(p, s)
  BY <1>2, <1>3, <1>5, SoloAsks DEF V1Event
<1>6. CASE PiStart(p, s)
  BY <1>2, <1>3, <1>6, SoloAsks DEF PiStart
<1>7. QED BY <1>1, <1>4, <1>5, <1>6

LEMMA SoloLeavesStep ==
  ASSUME PluginsInv, NEW p \in Processes, V1Dispose(p) \/ PiShutdown(p)
  PROVE  PluginsInv'
<1>1. /\ UNCHANGED <<registryVars, setup, key, listed, bound, faults, pastVars>>
      /\ harness[p] # "v2" /\ stage[p] = "on" /\ stage' = [stage EXCEPT ![p] = "closed"]
      /\ timer' = [timer EXCEPT ![p] = FALSE] /\ own' = [own EXCEPT ![p][Solo].id = 0]
      /\ calls' = calls \cup Leave(p, {own[p][Solo].id})
  BY DEF V1Dispose, PiShutdown
<1>2. PluginsTypes /\ PluginOK(p) /\ Solo \in Tabs
  BY PluginConstants DEF PluginsInv
<1>3. own[p] \in [Tabs -> Identity] /\ own[p][Solo] \in Identity /\ own[p][Solo].id \in Nat
  BY <1>2 DEF PluginsTypes, Identity
<1>4. /\ own' \in [Processes -> [Tabs -> Identity]] /\ \A r \in Processes \ {p} : own'[r] = own[r]
      /\ own'[p][Solo].id = 0 /\ \A t \in Tabs \ {Solo} : own'[p][t] = own[p][t]
  <2>1. /\ [own[p][Solo] EXCEPT !.id = 0] \in Identity
        /\ [own[p][Solo] EXCEPT !.id = 0].id = 0
    BY <1>3 DEF Identity
  <2>2. own' = [own EXCEPT ![p] = [own[p] EXCEPT ![Solo] = [own[p][Solo] EXCEPT !.id = 0]]]
    BY <1>1
  <2>3. QED BY <1>2, <1>3, <2>1, <2>2 DEF PluginsTypes
<1>5. UNCHANGED <<given, excused>> /\ RowsOK' /\ IdsMove /\ nextId' = nextId /\ agents' = agents
  BY <1>1, RowsUnchanged DEF PluginsInv, pastVars, registryVars
<1>6. /\ Leave(p, {own[p][Solo].id}) \subseteq PluginCalls
      /\ \A c \in Leave(p, {own[p][Solo].id}) : c.proc = p /\ c.op = "deregister"
  BY <1>3, LeaveOK
<1>7. PluginsTypes'
  <2>1. calls' \subseteq PluginCalls /\ \A c \in calls' : c.op # "deregister" => c.q \in Request
    BY <1>1, <1>2, <1>6 DEF PluginsTypes
  <2>2. stage' \in [Processes -> {"off", "loading", "on", "closed"}] /\ timer' \in [Processes -> BOOLEAN]
    BY <1>1, <1>2 DEF PluginsTypes
  <2>3. QED BY <1>1, <1>2, <1>4, <1>5, <2>1, <2>2 DEF PluginsTypes
<1>8. PluginOK(p)'
  <2>1. harness' = harness /\ stage'[p] = "closed" /\ timer'[p] = FALSE /\ listed'[p] = {}
    BY <1>1, <1>2 DEF harness, PluginsTypes, PluginOK, Staged
  <2>2. 0 < nextId
    BY MaxAgentsAssumption DEF PluginsInv, RowsOK, TableOK
  <2>3. Known(p)'
    BY <1>2, <1>4, <1>5, <2>2 DEF PluginOK, Known
  <2>4. Staged(p)'
    BY <1>1, <2>1 DEF Staged
  <2>5. Agrees(p)'
    BY <1>2, <1>4, <1>5, <2>1 DEF PluginOK, Agrees, RowOf
  <2>6. ~Spared(p)'
    BY <1>1, <2>1 DEF Spared
  <2>7. QED BY <2>3, <2>4, <2>5, <2>6 DEF PluginOK, Tidy, Kept
<1>9. \A c : c.proc # p => (c \in calls' <=> c \in calls)
  BY <1>1, <1>6
<1>10. \A r \in Processes \ {p} : stage'[r] = stage[r] /\ timer'[r] = timer[r]
  BY <1>1, <1>2 DEF PluginsTypes
<1>11. QED BY <1>1, <1>4, <1>5, <1>7, <1>8, <1>9, <1>10, ActorStep

\* keepAlive: a heartbeat, or the registration once more.
LEMMA KeepAliveStep ==
  ASSUME PluginsInv, NEW p \in Processes, KeepAlive(p)
  PROVE  PluginsInv'
<1>1. /\ UNCHANGED <<nextId, setup, procVars, bound, moves, pastVars>>
      /\ harness[p] = "pi" /\ timer[p]
  BY DEF KeepAlive
<1>2. PluginsTypes /\ PluginOK(p) /\ RowsOK /\ Solo \in Tabs
  BY PluginConstants DEF PluginsInv
<1>3. CASE UNCHANGED <<calls, faults>> /\ \E n \in RowOf(own[p][Solo].id) : agents' = [agents EXCEPT ![n].live = TRUE]
  <2>1. PICK n \in Names : agents' = [agents EXCEPT ![n].live = TRUE]
    BY <1>3 DEF RowOf
  <2>2. agents' \in [Names -> Row] /\ \A m \in Names : agents'[m].id = agents[m].id
    BY <1>2, <2>1 DEF RowsOK, TableOK, Row
  <2>3. RowsOK' /\ IdsMove
    BY <1>1, <1>2, <2>2, RowsRewritten
  <2>4. faults' \in Nat /\ (faults' = 0 => faults = 0)
    BY <1>2, <1>3 DEF PluginsTypes
  <2>5. QED BY <1>1, <1>3, <2>3, <2>4, RowsStep
<1>4. CASE /\ Fault \/ UNCHANGED faults
           /\ calls' = calls \cup {Registering(p, Solo, own[p][Solo], key[p], 0)}
           /\ UNCHANGED agents
  <2> DEFINE c0 == Registering(p, Solo, own[p][Solo], key[p], 0)
  <2>1. UNCHANGED <<stage, key, own, listed, timer, given, excused, registryVars>>
    BY <1>1, <1>4 DEF procVars, pastVars, registryVars
  <2>2. own[p][Solo] \in Identity /\ own[p][Solo].name \in Names /\ key[p] \in Sessions \cup {None} /\ 0 \in Nat
    BY <1>1, <1>2 DEF PluginsTypes, PluginOK, Staged
  <2>3. c0 \in PluginCalls /\ c0.q \in Request /\ c0.proc = p
    <3>1. Ask(own[p][Solo], key[p]) \in Request
      BY <2>2, AskOK
    <3>2. Registering(p, Solo, own[p][Solo], key[p], 0) \in PluginCalls
      BY <1>2, <2>2, <3>1, RegisteringOK
    <3>3. QED BY <3>1, <3>2 DEF Registering, Call
  <2> HIDE DEF c0
  <2>4. RowsOK' /\ IdsMove
    BY <1>2, <2>1, RowsUnchanged
  <2>5. faults' \in Nat /\ (faults' = 0 => faults = 0)
    BY <1>2, <1>4 DEF PluginsTypes, Fault
  <2>6. PluginsTypes'
    <3>1. calls' \subseteq PluginCalls /\ \A c \in calls' : c.op # "deregister" => c.q \in Request
      BY <1>2, <1>4, <2>3 DEF PluginsTypes, c0
    <3>2. QED BY <1>1, <1>2, <2>1, <2>5, <3>1 DEF PluginsTypes
  <2>7. harness' = harness
    BY <1>1 DEF harness
  <2>8. PluginOK(p)'
    <3>1. Known(p)'
      BY <1>2, <2>1, <2>7 DEF PluginOK, Known, registryVars
    <3>2. Staged(p)'
      BY <1>1, <1>2, <2>1, <2>7 DEF PluginOK, Staged
    <3>3. Agrees(p)'
      BY <1>2, <2>1, <2>7 DEF PluginOK, Agrees, RowOf, registryVars
    <3>4. ~Spared(p)'
      BY <1>1, <2>7 DEF Spared
    <3>5. QED BY <3>1, <3>2, <3>3, <3>4 DEF PluginOK, Tidy, Kept
  <2>9. \A c : c.proc # p => (c \in calls' <=> c \in calls)
    BY <1>4, <2>3 DEF c0
  <2>10. QED BY <1>1, <2>1, <2>4, <2>5, <2>6, <2>8, <2>9, ActorStep
<1>5. QED BY <1>3, <1>4 DEF KeepAlive

-----------------------------------------------------------------------------
(* The plugins: rows that age *)

\* A row that is live or not.
LEMMA LiveRows ==
  ASSUME agents \in [Names -> Row], NEW n \in Names, NEW b \in BOOLEAN,
         agents' = [agents EXCEPT ![n].live = b]
  PROVE  agents' \in [Names -> Row] /\ \A m \in Names : agents'[m].id = agents[m].id
<1>1. [agents[n] EXCEPT !.live = b] \in Row /\ [agents[n] EXCEPT !.live = b].id = agents[n].id
  BY DEF Row
<1>2. agents' = [agents EXCEPT ![n] = [agents[n] EXCEPT !.live = b]]
  OBVIOUS
<1>3. QED BY <1>1, <1>2

LEMMA BeatStep ==
  ASSUME PluginsInv, NEW p \in Processes, Beat(p)
  PROVE  PluginsInv'
<1>1. /\ UNCHANGED <<setup, procVars, calls, bound, moves, faults, pastVars>>
      /\ \E n \in Names : Heartbeat(n)
  BY DEF Beat, RowOf
<1>2. RowsOK /\ faults \in Nat
  BY DEF PluginsInv, PluginsTypes
<1>3. /\ agents' \in [Names -> Row] /\ UNCHANGED nextId
      /\ \A m \in Names : agents'[m].id = agents[m].id
  BY <1>1, <1>2, LiveRows DEF Heartbeat, RowsOK, TableOK
<1>4. QED BY <1>1, <1>2, <1>3, RowsRewritten, RowsStep

LEMMA AgeStep ==
  ASSUME PluginsInv, Sweep \/ \E n \in Names : Silent(n)
  PROVE  PluginsInv'
<1>1. UNCHANGED <<setup, procVars, calls, bound, pastVars>> /\ (Reap \/ \E n \in Names : Lapse(n))
  BY DEF Sweep, Silent
<1>2. RowsOK /\ faults \in Nat
  BY DEF PluginsInv, PluginsTypes
<1>3. faults' \in Nat /\ (faults' = 0 => faults = 0)
  BY <1>2 DEF Sweep, Silent, Fault
<1>4. UNCHANGED nextId /\ agents' \in [Names -> Row] /\ \A n \in Names : agents'[n].id \in {0, agents[n].id}
  <2>1. agents \in [Names -> Row]
    BY <1>2 DEF RowsOK, TableOK
  <2>2. CASE Reap
    <3>1. \A n \in Names : Reaped(agents[n]) \in Row /\ Reaped(agents[n]).id \in {0, agents[n].id}
      <4>1. \A n \in Names : agents[n] \in Row
        BY <2>1
      <4>2. \A row \in Row : Reaped(row) \in Row /\ Reaped(row).id \in {0, row.id}
        BY AbsentIsRow DEF Reaped, Row, Absent
      <4>3. QED BY <4>1, <4>2
    <3>2. QED BY <2>2, <3>1 DEF Reap
  <2>3. CASE \E n \in Names : Lapse(n)
    BY <2>1, <2>3, LiveRows DEF Lapse
  <2>4. QED BY <1>1, <2>2, <2>3
<1>5. QED BY <1>1, <1>2, <1>3, <1>4, RowsRewritten, RowsStep

-----------------------------------------------------------------------------
(* The plugins: OpenCode v2, claims and crashes *)

\* While no row changes, what a plugin knows is known.
LEMMA RowsSame ==
  ASSUME PluginsInv, UNCHANGED registryVars
  PROVE  RowsOK' /\ IdsMove /\ nextId' = nextId /\ agents' = agents
BY RowsUnchanged DEF PluginsInv, registryVars

LEMMA V2LoadStep ==
  ASSUME PluginsInv, NEW p \in Processes, V2Load(p)
  PROVE  PluginsInv'
<1>1. /\ UNCHANGED <<registryVars, setup, key, own, listed, timer, calls, bound, moves, faults, pastVars>>
      /\ harness[p] = "v2" /\ stage[p] = "off" /\ stage' = [stage EXCEPT ![p] = "on"]
  BY DEF V2Load
<1>2. PluginsTypes /\ PluginOK(p)
  BY DEF PluginsInv
<1>3. UNCHANGED <<given, excused>> /\ RowsOK' /\ IdsMove /\ nextId' = nextId /\ agents' = agents
  BY <1>1, RowsSame DEF pastVars
<1>4. /\ stage' \in [Processes -> {"off", "loading", "on", "closed"}] /\ stage'[p] = "on"
      /\ \A r \in Processes \ {p} : stage'[r] = stage[r]
  BY <1>1, <1>2 DEF PluginsTypes
<1>5. PluginsTypes'
  BY <1>1, <1>2, <1>3, <1>4 DEF PluginsTypes
<1>6. PluginOK(p)'
  <2>1. harness' = harness /\ listed'[p] = {}
    BY <1>1, <1>2 DEF harness, PluginOK, Staged
  <2>2. Known(p)'
    BY <1>1, <1>2, <1>3 DEF PluginOK, Known
  <2>3. Staged(p)'
    BY <1>1, <1>2, <1>4, <2>1 DEF PluginOK, Staged
  <2>4. Agrees(p)'
    BY <1>1, <1>2, <1>3, <2>1 DEF PluginOK, Agrees, RowOf
  <2>5. Spared(p)' => Spared(p)
    BY <1>1, <1>3, <2>1 DEF Spared
  <2>6. Tidy(p)'
    <3>1. \A c \in calls : c.proc # p
      BY <1>1, <1>2 DEF PluginOK, Staged
    <3>2. QED BY <1>1, <3>1 DEF Tidy
  <2>7. Kept(p)'
    BY <1>1, <1>2, <1>3, <2>5 DEF PluginOK, Kept, Accounted
  <2>8. QED BY <2>2, <2>3, <2>4, <2>6, <2>7 DEF PluginOK
<1>7. QED BY <1>1, <1>3, <1>4, <1>5, <1>6, ActorStep

LEMMA ResolvedV2OK ==
  ASSUME PluginsInv, NEW p \in Processes, NEW s \in Sessions
  PROVE  /\ ResolvedV2(p, s) \in Identity /\ ResolvedV2(p, s).name \in Names
         /\ ResolvedV2(p, s).id = 0
<1>1. bound[s] \in Names \cup {None} /\ Base[s] \in Names
  BY PluginConstants DEF PluginsInv, PluginsTypes
<1>2. CASE bound[s] # None
  BY <1>1, <1>2 DEF ResolvedV2, Identity
<1>3. CASE bound[s] = None
  BY <1>1, <1>3 DEF ResolvedV2, Identity
<1>4. QED BY <1>2, <1>3

\* A session without an agent asks for one, under the name it had.
LEMMA V2EnsureStep ==
  ASSUME PluginsInv, NEW p \in Processes, NEW s \in Opens[p], V2Ensure(p, s)
  PROVE  PluginsInv'
<1> DEFINE i == IF s \in listed[p] THEN own[p][s] ELSE ResolvedV2(p, s)
           c0 == Registering(p, s, i, s, 0)
<1>1. /\ UNCHANGED <<registryVars, setup, stage, key, timer, bound, moves, faults, pastVars>>
      /\ harness[p] = "v2" /\ stage[p] = "on" /\ ~(s \in listed[p] /\ own[p][s].id # 0)
      /\ listed' = [listed EXCEPT ![p] = @ \cup {s}] /\ own' = [own EXCEPT ![p][s] = i]
      /\ calls' = calls \cup {c0}
  BY DEF V2Ensure
<1>2. PluginsTypes /\ PluginOK(p) /\ s \in Sessions /\ s \in Tabs
  BY PluginConstants DEF PluginsInv
<1>3. i \in Identity /\ i.name \in Names /\ i.id = 0
  <2>1. s \in listed[p] => own[p][s] \in Identity /\ own[p][s].name \in Names
    BY <1>2 DEF PluginsTypes, PluginOK, Staged
  <2>2. QED BY <1>1, <1>2, <2>1, ResolvedV2OK
<1> HIDE DEF i
<1>4. /\ c0 \in PluginCalls /\ c0.q \in Request /\ c0.proc = p
      /\ c0.op = "register" /\ c0.tab = s /\ c0.orphan = FALSE
  <2>1. Ask(i, s) \in Request
    BY <1>2, <1>3, AskOK
  <2>2. QED BY <1>2, <2>1 DEF Registering, Call, PluginCalls
<1> HIDE DEF c0
<1>5. /\ own' \in [Processes -> [Tabs -> Identity]] /\ \A r \in Processes \ {p} : own'[r] = own[r]
      /\ own'[p][s] = i /\ \A t \in Tabs \ {s} : own'[p][t] = own[p][t]
  BY <1>1, <1>2, <1>3 DEF PluginsTypes
<1>6. /\ listed' \in [Processes -> SUBSET Sessions] /\ \A r \in Processes \ {p} : listed'[r] = listed[r]
      /\ listed'[p] = listed[p] \cup {s}
  BY <1>1, <1>2 DEF PluginsTypes
<1>7. UNCHANGED <<given, excused>> /\ RowsOK' /\ IdsMove /\ nextId' = nextId /\ agents' = agents
  BY <1>1, RowsSame DEF pastVars
<1>8. PluginsTypes'
  <2>1. calls' \subseteq PluginCalls /\ \A c \in calls' : c.op # "deregister" => c.q \in Request
    BY <1>1, <1>2, <1>4 DEF PluginsTypes
  <2>2. QED BY <1>1, <1>2, <1>5, <1>6, <1>7, <2>1 DEF PluginsTypes
<1>9. PluginOK(p)'
  <2>1. harness' = harness
    BY <1>1 DEF harness
  <2>2. 0 < nextId
    BY MaxAgentsAssumption DEF PluginsInv, RowsOK, TableOK
  <2>3. \A t \in Tabs : own'[p][t].id \in {own[p][t].id, 0}
    BY <1>3, <1>5
  <2>4. Known(p)'
    BY <1>2, <1>7, <2>2, <2>3 DEF PluginOK, Known
  <2>5. Staged(p)'
    <3>1. own'[p][Solo] = own[p][Solo]
      BY <1>2, <1>5, PluginConstants
    <3>2. \A x \in listed'[p] : own'[p][x].name \in Names
      BY <1>2, <1>3, <1>5, <1>6, PluginConstants DEF PluginOK, Staged, PluginsTypes
    <3>3. QED BY <1>1, <1>2, <2>1, <3>1, <3>2 DEF PluginOK, Staged
  <2>6. Agrees(p)'
    <3>1. \A t \in Tabs \ {s} : \A n \in RowOf(own[p][t].id) : own[p][t].name = n
      BY <1>1, <1>2 DEF PluginOK, Agrees
    <3>2. RowOf(i.id) = {}
      BY <1>3 DEF RowOf
    <3>3. QED BY <1>5, <1>7, <3>1, <3>2 DEF Agrees, RowOf
  <2>7. Spared(p)' => Spared(p)
    BY <1>1, <1>7, <2>1 DEF Spared
  <2>8. Tidy(p)'
    <3>1. ~\E c \in calls : c.proc = p /\ c.op = "register" /\ c.tab = s
      BY DEF V2Ensure, CallsOf
    <3>2. ASSUME Spared(p), NEW c \in calls, c.proc = p PROVE TidyCall(p, c)'
      <4>1. TidyCall(p, c)
        BY <1>2, <3>2 DEF PluginOK, Tidy
      <4>2. c.op \in {"register", "claim"} /\ c.tab \in listed[p] => c.tab # s
        BY <1>1, <3>1, <3>2, <4>1 DEF TidyCall
      <4>3. listed[p] \subseteq Tabs
        BY <1>2, PluginConstants DEF PluginsTypes
      <4>4. QED BY <1>1, <1>5, <1>6, <4>1, <4>2, <4>3 DEF TidyCall
    <3>3. ASSUME NEW c, c = c0 PROVE TidyCall(p, c)'
      BY <1>3, <1>4, <1>5, <1>6, <3>3 DEF TidyCall
    <3>4. ASSUME Spared(p), NEW c \in calls', c.proc = p PROVE TidyCall(p, c)'
      BY <1>1, <3>2, <3>3, <3>4
    <3>5. ASSUME Spared(p), NEW c \in calls', NEW e \in calls',
                 c.proc = p, c.op = "register", ~c.orphan,
                 e.proc = p, e.op = "register", ~e.orphan, e.tab = c.tab
          PROVE  e = c
      <4>1. (c \in calls \/ c = c0) /\ (e \in calls \/ e = c0)
        BY <1>1
      <4>2. CASE c \in calls /\ e \in calls
        BY <1>2, <3>5, <4>2 DEF PluginOK, Tidy
      <4>3. CASE c = c0 \/ e = c0
        BY <1>4, <3>1, <3>5, <4>1, <4>3
      <4>4. QED BY <4>1, <4>2, <4>3
    <3>6. QED BY <2>7, <3>4, <3>5 DEF Tidy
  <2>9. Kept(p)'
    <3>1. SUFFICES ASSUME Spared(p), NEW n \in Names, agents[n].id \in given[p]
                   PROVE  Accounted(p, agents[n].id)'
      BY <1>7, <2>7 DEF Kept
    <3>2. Accounted(p, agents[n].id)
      BY <1>2, <3>1 DEF PluginOK, Kept
    <3>3. agents[n].id # 0
      BY <3>1, <1>2 DEF PluginsTypes
    <3>4. CASE \E x \in listed[p] : own[p][x].id = agents[n].id
      <4>1. PICK x \in listed[p] : own[p][x].id = agents[n].id
        BY <3>4
      <4>2. x # s /\ x \in Tabs
        BY <1>1, <1>2, <3>3, <4>1, PluginConstants DEF PluginsTypes
      <4>3. QED BY <1>5, <1>6, <1>7, <4>1, <4>2 DEF Accounted
    <3>5. CASE ~\E x \in listed[p] : own[p][x].id = agents[n].id
      BY <1>1, <1>7, <3>2, <3>5 DEF Accounted
    <3>6. QED BY <3>4, <3>5
  <2>10. QED BY <2>4, <2>5, <2>6, <2>8, <2>9 DEF PluginOK
<1>10. \A c : c.proc # p => (c \in calls' <=> c \in calls)
  BY <1>1, <1>4
<1>11. QED BY <1>1, <1>5, <1>6, <1>7, <1>8, <1>9, <1>10, ActorStep

\* Requests that are let go are the same but for that.
LEMMA OrphanedOK ==
  ASSUME PluginsTypes, NEW p \in Processes, NEW S \in SUBSET Sessions
  PROVE  /\ Orphaned(p, S) \subseteq PluginCalls
         /\ \A c \in Orphaned(p, S) :
              /\ c.op # "deregister" => c.q \in Request
              /\ c.proc # p => c \in calls
              /\ \/ c \in calls /\ c.proc # p
                 \/ c \in calls /\ c.tab \notin S
                 \/ c.orphan = TRUE /\ c.tab \in S /\ \E o \in calls : o.proc = p /\ o.op = c.op /\ o.tab = c.tab
         /\ \A c \in calls : c.proc # p \/ c.tab \notin S => c \in Orphaned(p, S)
         /\ \A o \in calls : \E c \in Orphaned(p, S) : c.proc = o.proc /\ c.op = o.op /\ c.prev = o.prev
<1>1. ASSUME NEW o \in calls
      PROVE  /\ [o EXCEPT !.orphan = TRUE] \in PluginCalls
             /\ [o EXCEPT !.orphan = TRUE].orphan = TRUE
             /\ [o EXCEPT !.orphan = TRUE].proc = o.proc /\ [o EXCEPT !.orphan = TRUE].op = o.op
             /\ [o EXCEPT !.orphan = TRUE].tab = o.tab /\ [o EXCEPT !.orphan = TRUE].q = o.q
             /\ [o EXCEPT !.orphan = TRUE].prev = o.prev
  BY DEF PluginsTypes, PluginCalls
<1>2. ASSUME NEW c \in Orphaned(p, S)
      PROVE  \E o \in calls : c = IF o.proc = p /\ o.tab \in S THEN [o EXCEPT !.orphan = TRUE] ELSE o
  BY DEF Orphaned
<1>3. ASSUME NEW c \in Orphaned(p, S)
      PROVE  /\ c \in PluginCalls
             /\ c.op # "deregister" => c.q \in Request
             /\ c.proc # p => c \in calls
             /\ \/ c \in calls /\ c.proc # p
                \/ c \in calls /\ c.tab \notin S
                \/ c.orphan = TRUE /\ c.tab \in S /\ \E o \in calls : o.proc = p /\ o.op = c.op /\ o.tab = c.tab
  <2>1. PICK o \in calls : c = IF o.proc = p /\ o.tab \in S THEN [o EXCEPT !.orphan = TRUE] ELSE o
    BY <1>2
  <2>2. o \in PluginCalls /\ (o.op # "deregister" => o.q \in Request)
    BY DEF PluginsTypes
  <2>3. CASE o.proc = p /\ o.tab \in S
    BY <1>1, <2>1, <2>2, <2>3
  <2>4. CASE ~(o.proc = p /\ o.tab \in S)
    BY <2>1, <2>2, <2>4
  <2>5. QED BY <2>3, <2>4
<1>4. \A c \in calls : c.proc # p \/ c.tab \notin S => c \in Orphaned(p, S)
  BY DEF Orphaned
<1>5. \A o \in calls : (IF o.proc = p /\ o.tab \in S THEN [o EXCEPT !.orphan = TRUE] ELSE o) \in Orphaned(p, S)
  BY DEF Orphaned
<1>6. \A o \in calls : \E c \in Orphaned(p, S) : c.proc = o.proc /\ c.op = o.op /\ c.prev = o.prev
  BY <1>1, <1>5
<1>7. QED BY <1>3, <1>4, <1>6

\* Sessions S go: their rows are about to, and what is under way for them is let go.
LetsGo(p, S, ids) ==
  /\ harness[p] = "v2" /\ stage[p] = "on"
  /\ UNCHANGED <<registryVars, setup, key, timer, bound, faults, given>>
  /\ stage' \in {stage, [stage EXCEPT ![p] = "closed"]}
  /\ stage'[p] = "closed" => Sessions \subseteq S
  /\ listed' = [listed EXCEPT ![p] = @ \ S]
  /\ own' \in [Processes -> [Tabs -> Identity]]
  /\ \A r \in Processes \ {p} : own'[r] = own[r] /\ excused'[r] = excused[r]
  /\ \A t \in Tabs : own'[p][t] = Unknown \/ (t \notin S /\ own'[p][t] = own[p][t])
  /\ \A s \in listed[p] \ S : own'[p][s] = own[p][s]
  /\ \A s \in S \cap listed[p] : own[p][s].id \in ids
  /\ calls' = Orphaned(p, S) \cup Leave(p, ids)
  /\ excused' \in [Processes -> BOOLEAN]
  /\ ~excused'[p] => /\ ~excused[p]
                     /\ \A c \in calls : c.proc = p /\ c.tab \in S =>
                          c.op # "claim" /\ (c.op = "register" => stage'[p] = "closed")

LEMMA V2LetsGo ==
  ASSUME PluginsInv, NEW p \in Processes, NEW S \in SUBSET Sessions, NEW ids \in SUBSET Nat,
         LetsGo(p, S, ids)
  PROVE  PluginsInv'
<1> USE DEF LetsGo
<1>1. PluginsTypes /\ PluginOK(p)
  BY DEF PluginsInv
<1>2. RowsOK' /\ IdsMove /\ nextId' = nextId /\ agents' = agents
  BY RowsSame
<1>3. /\ stage' \in [Processes -> {"off", "loading", "on", "closed"}]
      /\ \A r \in Processes \ {p} : stage'[r] = stage[r]
      /\ stage'[p] \in {"on", "closed"}
  <2>1. stage' \in {stage, [stage EXCEPT ![p] = "closed"]} /\ stage[p] = "on"
    OBVIOUS
  <2>2. stage \in [Processes -> {"off", "loading", "on", "closed"}]
    BY <1>1 DEF PluginsTypes
  <2>3. QED BY ONLY <2>1, <2>2, p \in Processes
<1>4. /\ listed' \in [Processes -> SUBSET Sessions] /\ \A r \in Processes \ {p} : listed'[r] = listed[r]
      /\ listed'[p] = listed[p] \ S /\ listed[p] \subseteq Sessions
  BY <1>1 DEF PluginsTypes
<1>5. /\ Leave(p, ids) \subseteq PluginCalls
      /\ \A c \in Leave(p, ids) : c.proc = p /\ c.op = "deregister"
      /\ \A i \in ids \ {0} : \E c \in Leave(p, ids) : c.proc = p /\ c.op = "deregister" /\ c.prev = i
  <2>1. ids \in SUBSET Nat
    OBVIOUS
  <2>2. QED BY ONLY <2>1, LeaveOK, p \in Processes
<1>6. /\ Orphaned(p, S) \subseteq PluginCalls
      /\ \A c \in Orphaned(p, S) :
           /\ c.op # "deregister" => c.q \in Request
           /\ c.proc # p => c \in calls
           /\ \/ c \in calls /\ c.proc # p
              \/ c \in calls /\ c.tab \notin S
              \/ c.orphan = TRUE /\ c.tab \in S /\ \E o \in calls : o.proc = p /\ o.op = c.op /\ o.tab = c.tab
      /\ \A c \in calls : c.proc # p \/ c.tab \notin S => c \in Orphaned(p, S)
      /\ \A o \in calls : \E c \in Orphaned(p, S) : c.proc = o.proc /\ c.op = o.op /\ c.prev = o.prev
  BY <1>1, OrphanedOK
<1>7. PluginsTypes'
  <2>1. calls' \subseteq PluginCalls /\ \A c \in calls' : c.op # "deregister" => c.q \in Request
    BY <1>5, <1>6
  <2>2. QED BY <1>1, <1>3, <1>4, <2>1 DEF PluginsTypes
<1>8. harness' = harness /\ Sessions \subseteq Tabs /\ Solo \in Tabs
  BY PluginConstants DEF harness
<1>9. Known(p)'
  <2>1. 0 < nextId /\ Unknown.id = 0
    BY MaxAgentsAssumption DEF PluginsInv, RowsOK, TableOK, Unknown
  <2>2. QED BY <1>1, <1>2, <2>1 DEF PluginOK, Known
<1>10. Staged(p)'
  <2>1. \A s \in listed'[p] : own'[p][s].name \in Names
    BY <1>1, <1>4 DEF PluginOK, Staged
  <2>2. ~timer'[p]
    BY <1>1 DEF PluginOK, Staged
  <2>3. stage'[p] # "on" => listed'[p] = {}
    BY <1>3, <1>4
  <2>4. QED BY <1>3, <1>8, <2>1, <2>2, <2>3 DEF Staged
<1>11. Agrees(p)'
  <2>1. RowOf(Unknown.id) = {}
    BY DEF RowOf, Unknown
  <2>2. QED BY <1>1, <1>2, <1>8, <2>1 DEF PluginOK, Agrees, RowOf
<1>12. Spared(p)' => Spared(p) /\ ~excused'[p]
  BY <1>8 DEF Spared
<1>13. Tidy(p)'
  <2>1. ASSUME Spared(p)', NEW c \in calls', c.proc = p, c.op # "deregister"
        PROVE  \/ c \in calls /\ c.tab \notin S
               \/ c.op = "register" /\ c.orphan = TRUE /\ stage'[p] = "closed"
    <3>1. c \in Orphaned(p, S) /\ c.op \in {"register", "claim"}
      BY <1>5, <1>6, <2>1 DEF PluginCalls
    <3>2. QED BY <1>6, <1>12, <2>1, <3>1
  <2>2. ASSUME Spared(p)', NEW c \in calls', c.proc = p PROVE TidyCall(p, c)'
    <3>1. CASE c \in calls /\ c.tab \notin S
      <4>1. TidyCall(p, c)
        BY <1>1, <1>12, <2>2, <3>1 DEF PluginOK, Tidy
      <4>2. c.op = "register" => ~c.orphan
        BY <4>1 DEF TidyCall
      <4>3. QED BY <1>4, <3>1, <4>1, <4>2 DEF TidyCall
    <3>2. CASE c.op = "register" /\ c.orphan = TRUE /\ stage'[p] = "closed"
      BY <3>2 DEF TidyCall
    <3>3. CASE c.op = "deregister"
      BY <3>3 DEF TidyCall
    <3>4. QED BY <2>1, <2>2, <3>1, <3>2, <3>3
  <2>3. ASSUME Spared(p)', NEW c \in calls', NEW e \in calls',
               c.proc = p, c.op = "register", ~c.orphan,
               e.proc = p, e.op = "register", ~e.orphan, e.tab = c.tab
        PROVE  e = c
    <3>1. c \in calls /\ e \in calls
      BY <2>1, <2>3
    <3>2. QED BY <1>1, <1>12, <2>3, <3>1 DEF PluginOK, Tidy
  <2>4. QED BY <2>2, <2>3 DEF Tidy
<1>14. Kept(p)'
  <2>1. SUFFICES ASSUME Spared(p), NEW n \in Names, agents[n].id \in given[p]
                 PROVE  Accounted(p, agents[n].id)'
    BY <1>2, <1>12 DEF Kept
  <2>2. Accounted(p, agents[n].id) /\ agents[n].id # 0
    BY <1>1, <2>1 DEF PluginOK, Kept, PluginsTypes
  <2>3. CASE \E s \in listed[p] : own[p][s].id = agents[n].id
    <3>1. PICK s \in listed[p] : own[p][s].id = agents[n].id
      BY <2>3
    <3>2. CASE s \in S
      <4>1. agents[n].id \in ids \ {0}
        BY <2>2, <3>1, <3>2
      <4>2. \E c \in calls' : c.proc = p /\ c.op = "deregister" /\ c.prev = agents[n].id
        BY <1>5, <4>1
      <4>3. QED BY <1>2, <4>2 DEF Accounted
    <3>3. CASE s \notin S
      BY <1>2, <1>4, <3>1, <3>3 DEF Accounted
    <3>4. QED BY <3>2, <3>3
  <2>4. CASE \E c \in calls : c.proc = p /\ c.op = "deregister" /\ c.prev = agents[n].id
    <3>1. \E c \in calls' : c.proc = p /\ c.op = "deregister" /\ c.prev = agents[n].id
      BY <1>6, <2>4
    <3>2. QED BY <1>2, <3>1 DEF Accounted
  <2>5. CASE \E r \in Processes \ {p} : agents[n].id \in given[r]
    BY <1>2, <2>5 DEF Accounted
  <2>6. QED BY <2>2, <2>3, <2>4, <2>5 DEF Accounted
<1>15. PluginOK(p)'
  BY <1>9, <1>10, <1>11, <1>13, <1>14 DEF PluginOK
<1>16. \A c : c.proc # p => (c \in calls' <=> c \in calls)
  BY <1>5, <1>6
<1>17. QED BY <1>2, <1>3, <1>4, <1>7, <1>15, <1>16, ActorStep

LEMMA V2DeletedStep ==
  ASSUME PluginsInv, NEW p \in Processes, NEW s \in Opens[p], V2Deleted(p, s)
  PROVE  PluginsInv'
<1>1. PluginsTypes /\ s \in Sessions /\ s \in Tabs /\ s # Solo /\ Unknown \in Identity
  BY PluginConstants DEF PluginsInv, Unknown, Identity
<1>2. /\ UNCHANGED <<registryVars, setup, stage, key, timer, bound, faults, given>>
      /\ harness[p] = "v2" /\ stage[p] = "on" /\ s \in listed[p]
      /\ listed' = [listed EXCEPT ![p] = @ \ {s}] /\ own' = [own EXCEPT ![p][s] = Unknown]
      /\ calls' = Orphaned(p, {s}) \cup Leave(p, {own[p][s].id})
      /\ excused' = [excused EXCEPT ![p] = @ \/ \E c \in CallsOf(p) : c.tab = s]
  BY DEF V2Deleted
<1>3. /\ own' \in [Processes -> [Tabs -> Identity]] /\ \A r \in Processes \ {p} : own'[r] = own[r]
      /\ own'[p][s] = Unknown /\ \A t \in Tabs \ {s} : own'[p][t] = own[p][t]
  BY <1>1, <1>2 DEF PluginsTypes
<1>4. /\ excused' \in [Processes -> BOOLEAN] /\ \A r \in Processes \ {p} : excused'[r] = excused[r]
      /\ ~excused'[p] => ~excused[p] /\ ~\E c \in CallsOf(p) : c.tab = s
  BY <1>1, <1>2 DEF PluginsTypes
<1>5. {s} \in SUBSET Sessions /\ {own[p][s].id} \in SUBSET Nat
  BY <1>1 DEF PluginsTypes, Identity
<1>6. \A x \in listed[p] \ {s} : own'[p][x] = own[p][x]
  BY <1>1, <1>3, PluginConstants DEF PluginsTypes
<1>7. \A t \in Tabs : own'[p][t] = Unknown \/ (t \notin {s} /\ own'[p][t] = own[p][t])
  BY <1>3
<1>8. \A x \in {s} \cap listed[p] : own[p][x].id \in {own[p][s].id}
  OBVIOUS
<1>9. stage' \in {stage, [stage EXCEPT ![p] = "closed"]} /\ (stage'[p] = "closed" => Sessions \subseteq {s})
  BY <1>2
<1>10. ~excused'[p] => /\ ~excused[p]
                       /\ \A c \in calls : c.proc = p /\ c.tab \in {s} =>
                            c.op # "claim" /\ (c.op = "register" => stage'[p] = "closed")
  BY <1>4 DEF CallsOf
<1>11. LetsGo(p, {s}, {own[p][s].id})
  BY <1>2, <1>3, <1>4, <1>6, <1>7, <1>8, <1>9, <1>10 DEF LetsGo
<1>12. QED BY <1>5, <1>11, V2LetsGo

LEMMA V2CloseStep ==
  ASSUME PluginsInv, NEW p \in Processes, V2Close(p)
  PROVE  PluginsInv'
<1> DEFINE ids == {own[p][s].id : s \in listed[p]}
<1>1. PluginsTypes /\ Sessions \subseteq Tabs /\ Unknown \in Identity
  BY PluginConstants DEF PluginsInv, Unknown, Identity
<1>2. /\ UNCHANGED <<registryVars, setup, key, timer, bound, faults, given>>
      /\ harness[p] = "v2" /\ stage[p] = "on" /\ stage' = [stage EXCEPT ![p] = "closed"]
      /\ listed' = [listed EXCEPT ![p] = {}] /\ own' = [own EXCEPT ![p] = [t \in Tabs |-> Unknown]]
      /\ calls' = Orphaned(p, Sessions) \cup Leave(p, ids)
      /\ excused' = [excused EXCEPT ![p] = @ \/ \E c \in CallsOf(p) : c.op = "claim"]
  BY DEF V2Close
<1>3. /\ own' \in [Processes -> [Tabs -> Identity]] /\ \A r \in Processes \ {p} : own'[r] = own[r]
      /\ \A t \in Tabs : own'[p][t] = Unknown
  BY <1>1, <1>2 DEF PluginsTypes
<1>4. /\ excused' \in [Processes -> BOOLEAN] /\ \A r \in Processes \ {p} : excused'[r] = excused[r]
      /\ ~excused'[p] => ~excused[p] /\ ~\E c \in CallsOf(p) : c.op = "claim"
  BY <1>1, <1>2 DEF PluginsTypes
<1>5. ids \in SUBSET Nat /\ \A s \in Sessions \cap listed[p] : own[p][s].id \in ids
  BY <1>1 DEF PluginsTypes, Identity
<1> HIDE DEF ids
<1>6. listed[p] \subseteq Sessions /\ listed' = [listed EXCEPT ![p] = @ \ Sessions]
  <2>1. listed[p] \subseteq Sessions
    BY <1>1 DEF PluginsTypes
  <2>2. listed[p] \ Sessions = {}
    BY <2>1
  <2>3. QED BY <1>2, <2>1, <2>2
<1>7. \A x \in listed[p] \ Sessions : own'[p][x] = own[p][x]
  BY <1>6
<1>8. stage' \in {stage, [stage EXCEPT ![p] = "closed"]} /\ stage'[p] = "closed"
  BY <1>1, <1>2 DEF PluginsTypes
<1>9. ~excused'[p] => /\ ~excused[p]
                      /\ \A c \in calls : c.proc = p /\ c.tab \in Sessions =>
                           c.op # "claim" /\ (c.op = "register" => stage'[p] = "closed")
  BY <1>4, <1>8 DEF CallsOf
<1>10. Sessions \in SUBSET Sessions
  OBVIOUS
<1>11. LetsGo(p, Sessions, ids)
  BY <1>2, <1>3, <1>4, <1>5, <1>6, <1>7, <1>8, <1>9 DEF LetsGo
<1>12. QED BY <1>5, <1>10, <1>11, V2LetsGo

\* A name is asked for, by a session of v2 that has an agent.
LEMMA ClaimStep ==
  ASSUME PluginsInv, NEW p \in Processes, NEW t \in Tabs, NEW n \in Wanted, Claim(p, t, n)
  PROVE  PluginsInv'
<1> DEFINE s == IF t = Solo THEN key[p] ELSE t
           q == Ask([name |-> n, mode |-> "exact"], s)
           c0 == Call(p, "claim", t, q, own[p][t].id)
<1>1. /\ UNCHANGED <<registryVars, setup, procVars, bound, faults, pastVars>>
      /\ stage[p] = "on" /\ (harness[p] = "v2" => t \in listed[p] /\ own[p][t].id # 0)
      /\ calls' = calls \cup {c0}
  BY DEF Claim
<1>2. PluginsTypes /\ PluginOK(p)
  BY DEF PluginsInv
<1>3. UNCHANGED <<stage, key, own, listed, timer, given, excused>> /\ RowsOK' /\ IdsMove /\ nextId' = nextId /\ agents' = agents
  BY <1>1, RowsSame DEF procVars, pastVars
<1>4. /\ c0 \in PluginCalls /\ c0.q \in Request /\ c0.proc = p /\ c0.op = "claim"
      /\ c0.tab = t /\ c0.orphan = FALSE
  <2>1. s \in Sessions \cup {None} /\ own[p][t].id \in Nat
    BY <1>2, PluginConstants DEF PluginsTypes, Identity
  <2>2. q \in Request
    BY <2>1, PluginConstants DEF Ask, Request, Kinds
  <2>3. QED BY <2>1, <2>2 DEF Call, PluginCalls
<1> HIDE DEF c0
<1>5. PluginsTypes'
  <2>1. calls' \subseteq PluginCalls /\ \A c \in calls' : c.op # "deregister" => c.q \in Request
    BY <1>1, <1>2, <1>4 DEF PluginsTypes
  <2>2. QED BY <1>1, <1>2, <1>3, <2>1 DEF PluginsTypes
<1>6. PluginOK(p)'
  <2>1. harness' = harness
    BY <1>1 DEF harness
  <2>2. Known(p)' /\ Agrees(p)'
    BY <1>2, <1>3, <2>1 DEF PluginOK, Known, Agrees, RowOf
  <2>3. Staged(p)'
    BY <1>1, <1>2, <1>3, <2>1 DEF PluginOK, Staged
  <2>4. Spared(p)' => Spared(p)
    BY <1>1, <1>3, <2>1 DEF Spared
  <2>5. \A c : TidyCall(p, c)' <=> TidyCall(p, c)
    BY <1>3 DEF TidyCall
  <2>6. ASSUME Spared(p), NEW c, c = c0 PROVE TidyCall(p, c)
    BY <1>1, <1>4, <2>6 DEF TidyCall, Spared
  <2>7. Tidy(p)'
    <3>1. \A c \in calls' : c \in calls \/ c = c0
      BY <1>1
    <3>2. \A c \in calls' : c.op = "register" => c \in calls
      BY <1>4, <3>1
    <3>3. QED BY <1>2, <2>4, <2>5, <2>6, <3>1, <3>2 DEF PluginOK, Tidy
  <2>8. Kept(p)'
    <3>1. \A i : Accounted(p, i) => Accounted(p, i)'
      BY <1>1, <1>3 DEF Accounted
    <3>2. QED BY <1>2, <1>3, <2>4, <3>1 DEF PluginOK, Kept
  <2>9. QED BY <2>2, <2>3, <2>7, <2>8 DEF PluginOK
<1>7. \A c : c.proc # p => (c \in calls' <=> c \in calls)
  BY <1>1, <1>4
<1>8. QED BY <1>1, <1>3, <1>5, <1>6, <1>7, ActorStep

LEMMA CrashStep ==
  ASSUME PluginsInv, NEW p \in Processes, Crash(p)
  PROVE  PluginsInv'
<1>1. /\ UNCHANGED <<registryVars, setup, key, bound, moves, pastVars>>
      /\ stage' = [stage EXCEPT ![p] = "closed"] /\ own' = [own EXCEPT ![p] = [t \in Tabs |-> Unknown]]
      /\ listed' = [listed EXCEPT ![p] = {}] /\ timer' = [timer EXCEPT ![p] = FALSE]
      /\ calls' = calls \ CallsOf(p) /\ faults' = faults + 1
  BY DEF Crash, Fault
<1>2. PluginsTypes /\ PluginOK(p) /\ Unknown \in Identity /\ Unknown.id = 0
  BY DEF PluginsInv, Unknown, Identity
<1>3. UNCHANGED <<given, excused>> /\ RowsOK' /\ IdsMove /\ nextId' = nextId /\ agents' = agents
  BY <1>1, RowsSame DEF pastVars
<1>4. /\ own' \in [Processes -> [Tabs -> Identity]] /\ \A r \in Processes \ {p} : own'[r] = own[r]
      /\ \A t \in Tabs : own'[p][t] = Unknown
  BY <1>1, <1>2 DEF PluginsTypes
<1>5. /\ stage' \in [Processes -> {"off", "loading", "on", "closed"}] /\ stage'[p] = "closed"
      /\ listed' \in [Processes -> SUBSET Sessions] /\ listed'[p] = {}
      /\ timer' \in [Processes -> BOOLEAN] /\ timer'[p] = FALSE
      /\ \A r \in Processes \ {p} : stage'[r] = stage[r] /\ listed'[r] = listed[r] /\ timer'[r] = timer[r]
  BY <1>1, <1>2 DEF PluginsTypes
<1>6. faults' \in Nat /\ faults' # 0
  BY <1>1, <1>2 DEF PluginsTypes
<1>7. PluginsTypes'
  <2>1. calls' \subseteq PluginCalls /\ \A c \in calls' : c.op # "deregister" => c.q \in Request
    BY <1>1, <1>2 DEF PluginsTypes
  <2>2. QED BY <1>1, <1>2, <1>3, <1>4, <1>5, <1>6, <2>1 DEF PluginsTypes
<1>8. PluginOK(p)'
  <2>1. 0 < nextId
    BY MaxAgentsAssumption DEF PluginsInv, RowsOK, TableOK
  <2>2. Known(p)'
    BY <1>2, <1>3, <1>4, <2>1 DEF PluginOK, Known
  <2>3. Staged(p)'
    BY <1>5 DEF Staged
  <2>4. Agrees(p)'
    BY <1>2, <1>4 DEF Agrees, RowOf
  <2>5. ~Spared(p)'
    BY <1>6 DEF Spared
  <2>6. QED BY <2>2, <2>3, <2>4, <2>5 DEF PluginOK, Tidy, Kept
<1>9. \A c : c.proc # p => (c \in calls' <=> c \in calls)
  BY <1>1 DEF CallsOf
<1>10. QED BY <1>1, <1>3, <1>4, <1>5, <1>6, <1>7, <1>8, <1>9, ActorStep

-----------------------------------------------------------------------------
(* The plugins: answers *)

StageOn(p) == stage' = [stage EXCEPT ![p] = IF @ = "loading" THEN "on" ELSE @]

LEMMA StageOnOK ==
  ASSUME PluginsInv, NEW p \in Processes, StageOn(p), NEW c \in calls, c.proc = p
  PROVE  /\ stage' \in [Processes -> {"off", "loading", "on", "closed"}]
         /\ \A r \in Processes \ {p} : stage'[r] = stage[r]
         /\ stage[p] # "off" /\ stage'[p] \notin {"off", "loading"}
         /\ stage[p] # "loading" => stage'[p] = stage[p]
         /\ harness[p] = "v2" => stage'[p] = stage[p]
<1>1. stage \in [Processes -> {"off", "loading", "on", "closed"}]
  BY DEF PluginsInv, PluginsTypes
<1>2. /\ stage'[p] = IF stage[p] = "loading" THEN "on" ELSE stage[p]
      /\ \A r \in Processes \ {p} : stage'[r] = stage[r]
      /\ stage' \in [Processes -> {"off", "loading", "on", "closed"}]
  BY <1>1 DEF StageOn
<1>3. Staged(p)
  BY DEF PluginsInv, PluginOK
<1>4. stage[p] # "off" /\ (harness[p] = "v2" => stage[p] # "loading")
  BY <1>3 DEF Staged
<1>5. QED BY <1>1, <1>2, <1>4

\* The id of an agent is that of no other row later.
LEMMA IdsStay ==
  ASSUME PluginsInv, IdsMove, NEW p \in Processes, NEW t \in Tabs, NEW n \in Names,
         own[p][t].id # 0, agents'[n].id = own[p][t].id
  PROVE  agents[n].id = own[p][t].id /\ own[p][t].name \in Names \cup {None}
<1>1. own[p][t] \in Identity /\ own[p][t].id < nextId
  BY DEF PluginsInv, PluginsTypes, PluginOK, Known
<1>2. QED BY <1>1 DEF IdsMove, Identity

\* A request that ends, and leaves the plugin with what it has.
CallEnds(p, c) ==
  /\ StageOn(p)
  /\ UNCHANGED <<setup, key, own, listed, bound, given, excused>>
  /\ timer' \in [Processes -> BOOLEAN] /\ \A r \in Processes \ {p} : timer'[r] = timer[r]
  /\ timer'[p] => timer[p] \/ (stage[p] = "loading" /\ harness[p] = "pi")
  /\ calls' = calls \ {c}
  /\ faults' \in Nat /\ (faults' = 0 => faults = 0)
  /\ faults' = 0 => \A m \in Names :
                      \/ agents'[m].id = 0
                      \/ agents'[m].id = agents[m].id /\ (c.op = "deregister" => agents'[m].id # c.prev)

LEMMA CallEndsOK ==
  ASSUME PluginsInv, NEW p \in Processes, NEW c \in calls, c.proc = p, CallEnds(p, c),
         RowsOK', IdsMove
  PROVE  PluginsInv'
<1>1. PluginsTypes /\ PluginOK(p)
  BY DEF PluginsInv
<1>2. /\ UNCHANGED <<setup, key, own, listed, bound, given, excused>>
      /\ timer' \in [Processes -> BOOLEAN] /\ \A r \in Processes \ {p} : timer'[r] = timer[r]
      /\ timer'[p] => timer[p] \/ (stage[p] = "loading" /\ harness[p] = "pi")
      /\ calls' = calls \ {c} /\ faults' \in Nat /\ (faults' = 0 => faults = 0)
      /\ StageOn(p)
  BY DEF CallEnds
<1>3. /\ stage' \in [Processes -> {"off", "loading", "on", "closed"}]
      /\ \A r \in Processes \ {p} : stage'[r] = stage[r]
      /\ stage'[p] \notin {"off", "loading"} /\ (stage[p] # "loading" => stage'[p] = stage[p])
      /\ harness[p] = "v2" => stage'[p] = stage[p]
  BY <1>2, StageOnOK
<1>4. PluginsTypes'
  <2>1. calls' \subseteq PluginCalls /\ \A e \in calls' : e.op # "deregister" => e.q \in Request
    BY <1>1, <1>2 DEF PluginsTypes
  <2>2. QED BY <1>1, <1>2, <1>3, <2>1 DEF PluginsTypes
<1>5. harness' = harness
  BY <1>2 DEF harness
<1>6. Known(p)'
  BY <1>1, <1>2 DEF PluginOK, Known, IdsMove, PluginsTypes, Identity
<1>7. Staged(p)'
  BY <1>1, <1>2, <1>3, <1>5 DEF PluginOK, Staged
<1>8. Agrees(p)'
  BY <1>1, <1>2, <1>5, IdsStay DEF PluginOK, Agrees, RowOf
<1>9. Spared(p)' => Spared(p) /\ faults' = 0
  BY <1>2, <1>5 DEF Spared
<1>10. Tidy(p)'
  <2>1. \A e : harness[p] = "v2" => (TidyCall(p, e)' <=> TidyCall(p, e))
    BY <1>2, <1>3 DEF TidyCall
  <2>2. Spared(p) => harness[p] = "v2"
    BY DEF Spared
  <2>3. QED BY <1>1, <1>2, <1>9, <2>1, <2>2 DEF PluginOK, Tidy
<1>11. Kept(p)'
  <2>1. SUFFICES ASSUME Spared(p), faults' = 0, NEW n \in Names, agents'[n].id \in given[p]
                 PROVE  Accounted(p, agents[n].id)'
    BY <1>2, <1>9 DEF Kept
  <2>2. agents'[n].id # 0
    BY <1>1, <2>1 DEF PluginsTypes
  <2>3. agents'[n].id = agents[n].id /\ (c.op = "deregister" => agents'[n].id # c.prev)
    BY <2>1, <2>2 DEF CallEnds
  <2>4. Accounted(p, agents[n].id)
    BY <1>1, <2>1, <2>3 DEF PluginOK, Kept
  <2>5. ASSUME NEW i, Accounted(p, i), c.op = "deregister" => i # c.prev PROVE Accounted(p, i)'
    BY <1>2, <2>5 DEF Accounted
  <2>6. \A i : i = agents'[n].id => Accounted(p, i)'
    BY <2>3, <2>4, <2>5
  <2>7. ASSUME NEW i, i = agents'[n].id, Accounted(p, i)' PROVE Accounted(p, agents[n].id)'
    BY <2>7 DEF Accounted
  <2>8. QED BY <2>6, <2>7
<1>12. PluginOK(p)'
  BY <1>6, <1>7, <1>8, <1>10, <1>11 DEF PluginOK
<1>13. \A e : e.proc # p => (e \in calls' <=> e \in calls)
  BY <1>2
<1>14. QED BY <1>2, <1>3, <1>4, <1>12, <1>13, ActorStep

LEMMA NotAnsweredStep ==
  ASSUME PluginsInv, NEW p \in Processes, NEW c \in CallsOf(p), NotAnswered(c), StageOn(p),
         UNCHANGED <<setup, key, moves>>
  PROVE  PluginsInv'
<1>1. PluginsTypes /\ c \in calls /\ c.proc = p /\ c.op # "deregister" /\ c.q \in Request
  BY DEF PluginsInv, PluginsTypes, CallsOf, NotAnswered
<1>2. RowsOK
  BY DEF PluginsInv
<1>3. \/ UNCHANGED <<registryVars, faults>>
      \/ Fault /\ (UNCHANGED registryVars \/ \E n \in Names : WriteRow(n, c.q))
  BY DEF NotAnswered, Granted
<1>4. RowsOK' /\ IdsMove
  BY <1>1, <1>2, <1>3, RowsUnchanged, RowsWritten
<1>5. /\ calls' = calls \ {c}
      /\ timer' = [timer EXCEPT ![p] = @ \/ (stage[p] = "loading" /\ harness[p] = "pi")]
      /\ UNCHANGED <<own, listed, bound, given, excused>>
  BY <1>1 DEF NotAnswered, pastVars
<1>6. timer'[p] = (timer[p] \/ (stage[p] = "loading" /\ harness[p] = "pi"))
  BY <1>1, <1>5 DEF PluginsTypes
<1>7. timer' \in [Processes -> BOOLEAN] /\ \A r \in Processes \ {p} : timer'[r] = timer[r]
  BY <1>1, <1>5 DEF PluginsTypes
<1>8. faults' \in Nat /\ (faults' = 0 => faults = 0) /\ (faults' = 0 => UNCHANGED agents)
  BY <1>1, <1>3 DEF Fault, PluginsTypes, registryVars
<1>9. CallEnds(p, c)
  BY <1>1, <1>5, <1>6, <1>7, <1>8 DEF CallEnds
<1>10. QED BY <1>1, <1>4, <1>9, CallEndsOK

LEMMA DeregisteredStep ==
  ASSUME PluginsInv, NEW p \in Processes, NEW c \in CallsOf(p), Deregistered(c), StageOn(p),
         UNCHANGED <<setup, key, moves>>
  PROVE  PluginsInv'
<1>1. PluginsTypes /\ c \in calls /\ c.proc = p /\ c.op = "deregister"
  BY DEF PluginsInv, CallsOf, Deregistered
<1>2. RowsOK /\ agents \in [Names -> Row] /\ Absent \in Row /\ Absent.id = 0
  BY AbsentIsRow DEF PluginsInv, RowsOK, TableOK, Absent
<1>3. /\ UNCHANGED nextId /\ calls' = calls \ {c}
      /\ UNCHANGED <<own, listed, timer, bound, given, excused>>
      /\ \/ /\ agents' = [n \in Names |-> IF n \in RowOf(c.prev) THEN Absent ELSE agents[n]]
            /\ UNCHANGED faults
         \/ Fault /\ UNCHANGED agents
  BY DEF Deregistered, pastVars
<1>4. /\ agents' \in [Names -> Row] /\ \A n \in Names : agents'[n].id \in {0, agents[n].id}
      /\ faults' = 0 => \A n \in Names : agents'[n].id = 0 \/ (agents'[n].id = agents[n].id /\ agents'[n].id # c.prev)
  <2>1. CASE agents' = [n \in Names |-> IF n \in RowOf(c.prev) THEN Absent ELSE agents[n]]
    <3>1. \A n \in Names : agents'[n] = IF n \in RowOf(c.prev) THEN Absent ELSE agents[n]
      BY <2>1
    <3>2. \A n \in Names : n \notin RowOf(c.prev) => agents[n].id = 0 \/ agents[n].id # c.prev
      BY DEF RowOf
    <3>3. QED BY <1>2, <2>1, <3>1, <3>2
  <2>2. CASE Fault /\ UNCHANGED agents
    BY <1>1, <1>2, <2>2 DEF Fault, PluginsTypes
  <2>3. QED BY <1>3, <2>1, <2>2
<1>5. RowsOK' /\ IdsMove
  BY <1>2, <1>3, <1>4, RowsRewritten
<1>6. faults' \in Nat /\ (faults' = 0 => faults = 0)
  BY <1>1, <1>3 DEF Fault, PluginsTypes
<1>7. timer' \in [Processes -> BOOLEAN]
  BY <1>1, <1>3 DEF PluginsTypes
<1>8. CallEnds(p, c)
  BY <1>3, <1>4, <1>6, <1>7 DEF CallEnds
<1>9. QED BY <1>1, <1>5, <1>8, CallEndsOK

\* The daemon's answer: row n, with id i, is the agent of u, unless that was let go.
Adopts(p, c, n, i, u, ids) ==
  /\ StageOn(p) /\ WriteRow(n, c.q) /\ agents'[n].id = i
  /\ harness[p] = "v2" => u = c.tab
  /\ UNCHANGED <<setup, key, listed, faults, excused>>
  /\ own' \in [Processes -> [Tabs -> Identity]] /\ \A r \in Processes \ {p} : own'[r] = own[r]
  /\ \/ own' = own /\ (harness[p] = "v2" => c.orphan)
     \/ /\ harness[p] = "v2" => ~c.orphan
        /\ \A t \in Tabs \ {u} : own'[p][t] = own[p][t]
        /\ own'[p][u].id = i /\ own'[p][u].name = n
  /\ timer' \in [Processes -> BOOLEAN] /\ \A r \in Processes \ {p} : timer'[r] = timer[r]
  /\ timer'[p] => timer[p] \/ (stage[p] = "loading" /\ harness[p] # "v2")
  /\ bound' \in [Sessions \cup {None} -> Names \cup {None}]
  /\ given' = [given EXCEPT ![p] = @ \cup {i}]
  /\ calls' = (calls \ {c}) \cup Leave(p, ids)
  /\ harness[p] = "v2" /\ c.op = "register" /\ c.orphan /\ stage[p] = "closed" => i \in ids
  /\ harness[p] = "v2" /\ c.op = "claim" /\ ~c.orphan => own[p][c.tab].id \in ids \cup {i}

LEMMA AdoptsOK ==
  ASSUME PluginsInv, NEW p \in Processes, NEW c \in calls, c.proc = p, c.op # "deregister",
         NEW n \in Names, NEW i, NEW u \in Tabs, NEW ids \in SUBSET Nat,
         Adopts(p, c, n, i, u, ids)
  PROVE  PluginsInv'
<1>1. PluginsTypes /\ PluginOK(p) /\ RowsOK /\ c.q \in Request /\ c \in PluginCalls
  BY DEF PluginsInv, PluginsTypes
<1>2. /\ StageOn(p) /\ WriteRow(n, c.q) /\ agents'[n].id = i
      /\ UNCHANGED <<setup, key, listed, faults, excused>>
      /\ own' \in [Processes -> [Tabs -> Identity]] /\ \A r \in Processes \ {p} : own'[r] = own[r]
      /\ timer' \in [Processes -> BOOLEAN] /\ \A r \in Processes \ {p} : timer'[r] = timer[r]
      /\ timer'[p] => timer[p] \/ (stage[p] = "loading" /\ harness[p] # "v2")
      /\ bound' \in [Sessions \cup {None} -> Names \cup {None}]
      /\ given' = [given EXCEPT ![p] = @ \cup {i}]
      /\ calls' = (calls \ {c}) \cup Leave(p, ids)
  BY DEF Adopts
<1>3. RowsOK' /\ IdsMove /\ i \in Nat \ {0} /\ i < nextId'
  BY <1>1, <1>2, RowsWritten
<1>4. /\ stage' \in [Processes -> {"off", "loading", "on", "closed"}]
      /\ \A r \in Processes \ {p} : stage'[r] = stage[r]
      /\ stage'[p] \notin {"off", "loading"} /\ (stage[p] # "loading" => stage'[p] = stage[p])
      /\ harness[p] = "v2" => stage'[p] = stage[p]
  BY <1>2, StageOnOK
<1>5. /\ Leave(p, ids) \subseteq PluginCalls
      /\ \A e \in Leave(p, ids) : e.proc = p /\ e.op = "deregister"
      /\ \A j \in ids \ {0} : \E e \in Leave(p, ids) : e.proc = p /\ e.op = "deregister" /\ e.prev = j
  <2>1. ids \in SUBSET Nat
    OBVIOUS
  <2>2. QED BY ONLY <2>1, LeaveOK, p \in Processes
<1>6. \/ own' = own /\ (harness[p] = "v2" => c.orphan)
      \/ /\ harness[p] = "v2" => ~c.orphan
         /\ \A t \in Tabs \ {u} : own'[p][t] = own[p][t]
         /\ own'[p][u].id = i /\ own'[p][u].name = n
  BY DEF Adopts
<1>7. /\ given' \in [Processes -> SUBSET (Nat \ {0})] /\ \A r \in Processes \ {p} : given'[r] = given[r]
      /\ given'[p] = given[p] \cup {i}
  BY <1>1, <1>2, <1>3 DEF PluginsTypes
<1>8. PluginsTypes'
  <2>1. calls' \subseteq PluginCalls /\ \A e \in calls' : e.op # "deregister" => e.q \in Request
    BY <1>1, <1>2, <1>5 DEF PluginsTypes
  <2>2. QED BY <1>1, <1>2, <1>4, <1>7, <2>1 DEF PluginsTypes
<1>9. harness' = harness /\ Sessions \subseteq Tabs /\ Solo \in Tabs
  BY <1>2, PluginConstants DEF harness
<1>10. Known(p)'
  <2>1. \A t \in Tabs : own[p][t].id < nextId /\ own[p][t].id \in Nat
    BY <1>1 DEF PluginOK, Known, PluginsTypes, Identity
  <2>2. \A t \in Tabs : own'[p][t].id < nextId'
    BY <1>3, <1>6, <2>1 DEF IdsMove
  <2>3. \A j \in given'[p] : j < nextId'
    BY <1>1, <1>3, <1>7 DEF PluginOK, Known, IdsMove, PluginsTypes
  <2>4. QED BY <2>2, <2>3 DEF Known
<1>11. Staged(p)'
  <2>1. \A t \in Tabs : own'[p][t].name \in Names \/ own'[p][t] = own[p][t]
    BY <1>6
  <2>2. listed[p] \subseteq Tabs
    BY <1>1, <1>9 DEF PluginsTypes
  <2>3. QED BY <1>1, <1>2, <1>4, <1>9, <2>1, <2>2 DEF PluginOK, Staged
<1>12. Agrees(p)'
  <2>1. SUFFICES ASSUME harness[p] # "v1", NEW t \in Tabs, NEW m \in Names,
                        own'[p][t].id # 0, agents'[m].id = own'[p][t].id
                 PROVE  own'[p][t].name = m
    BY <1>9 DEF Agrees, RowOf
  <2>2. CASE own'[p][t] = own[p][t]
    <3>1. agents[m].id = own[p][t].id
      BY <1>3, <2>1, <2>2, IdsStay
    <3>2. QED BY <1>1, <2>1, <2>2, <3>1 DEF PluginOK, Agrees, RowOf
  <2>3. CASE own'[p][t] # own[p][t]
    <3>1. own'[p][t].id = i /\ own'[p][t].name = n
      BY <1>6, <2>3
    <3>2. m = n
      BY <1>2, <1>3, <2>1, <3>1 DEF RowsOK, IdsAreUnique, Exists
    <3>3. QED BY <3>1, <3>2
  <2>4. QED BY <2>2, <2>3
<1>13. Spared(p)' => Spared(p)
  BY <1>2, <1>9 DEF Spared
<1>14. ASSUME Spared(p)
       PROVE  /\ harness[p] = "v2" /\ stage'[p] = stage[p] /\ u = c.tab
              /\ c.op \in {"register", "claim"} /\ TidyCall(p, c)
              /\ c.op = "register" /\ c.orphan => i \in ids
              /\ c.op = "claim" => own[p][c.tab].id \in ids \cup {i}
              /\ own' # own => ~c.orphan
  <2>1. harness[p] = "v2" /\ c.op \in {"register", "claim"} /\ TidyCall(p, c)
    BY <1>1, <1>14 DEF Spared, PluginOK, Tidy, PluginCalls
  <2>2. /\ c.op = "register" /\ c.orphan => stage[p] = "closed"
        /\ c.op = "claim" => ~c.orphan
    BY <2>1 DEF TidyCall
  <2>3. QED BY <1>4, <1>6, <2>1, <2>2 DEF Adopts
<1>15. Tidy(p)'
  <2>1. ASSUME Spared(p), NEW e \in calls, e # c, e.proc = p PROVE TidyCall(p, e)'
    <3>1. TidyCall(p, e)
      BY <1>1, <2>1 DEF PluginOK, Tidy
    <3>2. listed[p] \subseteq Tabs
      BY <1>1, <1>9 DEF PluginsTypes
    <3>3. CASE own'[p][e.tab] = own[p][e.tab]
      BY <1>2, <1>14, <2>1, <3>1, <3>3 DEF TidyCall
    <3>4. CASE own'[p][e.tab] # own[p][e.tab] /\ e.tab \in Tabs
      <4>1. e.tab = c.tab /\ own'[p][e.tab].id = i /\ ~c.orphan
        BY <1>6, <1>14, <2>1, <3>4
      <4>2. c.op = "register" \/ own[p][c.tab].id # 0
        BY <1>14, <2>1 DEF TidyCall
      <4>3. ~(e.op = "register" /\ ~e.orphan)
        <5>1. SUFFICES ASSUME e.op = "register", ~e.orphan PROVE FALSE
          OBVIOUS
        <5>2. own[p][e.tab].id = 0
          BY <3>1, <5>1 DEF TidyCall
        <5>3. c.op = "register"
          BY <4>1, <4>2, <5>2
        <5>4. QED BY <1>1, <2>1, <4>1, <5>1, <5>3 DEF PluginOK, Tidy
      <4>4. QED BY <1>2, <1>3, <1>14, <2>1, <3>1, <4>1, <4>3 DEF TidyCall
    <3>5. QED BY <1>1, <3>3, <3>4 DEF PluginsTypes, PluginCalls
  <2>2. ASSUME NEW e \in Leave(p, ids) PROVE TidyCall(p, e)'
    BY <1>5, <2>2 DEF TidyCall
  <2>3. ASSUME NEW e \in calls', e.op = "register" PROVE e \in calls
    BY <1>2, <1>5, <2>3
  <2>4. QED BY <1>1, <1>2, <1>13, <2>1, <2>2, <2>3 DEF PluginOK, Tidy
<1>16. Kept(p)'
  <2>1. ASSUME Spared(p) PROVE Accounted(p, i)'
    <3>1. CASE c.op = "register" /\ c.orphan
      <4>1. i \in ids \ {0}
        BY <1>3, <1>14, <2>1, <3>1
      <4>2. QED BY <1>2, <1>5, <4>1 DEF Accounted
    <3>2. CASE ~(c.op = "register" /\ c.orphan)
      <4>1. ~c.orphan /\ c.tab \in listed[p]
        BY <1>14, <2>1, <3>2 DEF TidyCall
      <4>2. own'[p][c.tab].id = i
        BY <1>6, <1>14, <2>1, <4>1
      <4>3. QED BY <1>2, <4>1, <4>2 DEF Accounted
    <3>3. QED BY <3>1, <3>2
  <2>2. ASSUME Spared(p), NEW j \in Nat \ {0}, j # i, Accounted(p, j) PROVE Accounted(p, j)'
    <3>1. CASE \E s \in listed[p] : own[p][s].id = j
      <4>1. PICK s \in listed[p] : own[p][s].id = j
        BY <3>1
      <4>2. s \in Tabs
        BY <1>1, <1>9 DEF PluginsTypes
      <4>3. CASE own'[p][s] = own[p][s]
        BY <1>2, <4>1, <4>3 DEF Accounted
      <4>4. CASE own'[p][s] # own[p][s]
        <5>1. s = c.tab /\ ~c.orphan
          BY <1>6, <1>14, <2>2, <4>2, <4>4
        <5>2. c.op = "claim"
          BY <1>14, <2>2, <4>1, <5>1 DEF TidyCall
        <5>3. j \in ids \ {0}
          BY <1>14, <2>2, <4>1, <5>1, <5>2
        <5>4. QED BY <1>2, <1>5, <5>3 DEF Accounted
      <4>5. QED BY <4>3, <4>4
    <3>2. CASE \E e \in calls : e.proc = p /\ e.op = "deregister" /\ e.prev = j
      BY <1>2, <3>2 DEF Accounted
    <3>3. CASE \E r \in Processes \ {p} : j \in given[r]
      BY <1>7, <3>3 DEF Accounted
    <3>4. QED BY <2>2, <3>1, <3>2, <3>3 DEF Accounted
  <2>3. ASSUME Spared(p), NEW m \in Names, NEW j, j = agents'[m].id, j \in given'[p]
        PROVE  Accounted(p, j)'
    <3>1. CASE j = i
      BY <2>1, <2>3, <3>1 DEF Accounted
    <3>2. CASE j # i
      <4>1. j \in given[p] /\ j \in Nat \ {0} /\ j < nextId
        BY <1>1, <1>7, <2>3, <3>2 DEF PluginsTypes, PluginOK, Known
      <4>2. agents[m].id = j
        BY <1>3, <2>3, <4>1 DEF IdsMove
      <4>3. Accounted(p, j)
        BY <1>1, <2>3, <4>1, <4>2 DEF PluginOK, Kept
      <4>4. QED BY <2>2, <2>3, <3>2, <4>1, <4>3
    <3>3. QED BY <3>1, <3>2
  <2>4. ASSUME NEW m \in Names, NEW j, j = agents'[m].id, Accounted(p, j)'
        PROVE  Accounted(p, agents[m].id)'
    BY <2>4 DEF Accounted
  <2>5. QED BY <1>13, <2>3, <2>4 DEF Kept
<1>17. PluginOK(p)'
  BY <1>10, <1>11, <1>12, <1>15, <1>16 DEF PluginOK
<1>18. \A e : e.proc # p => (e \in calls' <=> e \in calls)
  BY <1>2, <1>5
<1>19. given[p] \subseteq given'[p]
  BY <1>7
<1>20. QED BY <1>2, <1>3, <1>4, <1>7, <1>8, <1>17, <1>18, <1>19, ActorStep

\* An identity gets an id and a name.
OwnTakes(p, t, i, n) == own' = [own EXCEPT ![p][t].id = i, ![p][t].name = n]

LEMMA OwnAdopts ==
  ASSUME PluginsTypes, NEW p \in Processes, NEW t \in Tabs, NEW i \in Nat, NEW n \in Names,
         OwnTakes(p, t, i, n)
  PROVE  /\ own' \in [Processes -> [Tabs -> Identity]]
         /\ \A r \in Processes \ {p} : own'[r] = own[r]
         /\ \A x \in Tabs \ {t} : own'[p][x] = own[p][x]
         /\ own'[p][t].id = i /\ own'[p][t].name = n
<1> DEFINE e == [[own[p][t] EXCEPT !.id = i] EXCEPT !.name = n]
<1>1. own \in [Processes -> [Tabs -> Identity]] /\ own[p] \in [Tabs -> Identity] /\ own[p][t] \in Identity
  BY DEF PluginsTypes
<1>2. e \in Identity /\ e.id = i /\ e.name = n
  BY <1>1 DEF Identity
<1>3. own' = [own EXCEPT ![p] = [own[p] EXCEPT ![t] = e]]
  BY <1>1 DEF OwnTakes
<1> HIDE DEF e
<1>4. /\ own'[p] = [own[p] EXCEPT ![t] = e] /\ own'[p] \in [Tabs -> Identity]
      /\ \A r \in Processes \ {p} : own'[r] = own[r]
  BY ONLY <1>1, <1>2, <1>3, p \in Processes, t \in Tabs
<1>5. own' \in [Processes -> [Tabs -> Identity]]
  BY ONLY <1>1, <1>2, <1>3, <1>4
<1>6. own'[p][t] = e /\ \A x \in Tabs \ {t} : own'[p][x] = own[p][x]
  BY ONLY <1>1, <1>4, t \in Tabs
<1>7. QED BY <1>2, <1>4, <1>5, <1>6

LEMMA AnsweredStep ==
  ASSUME PluginsInv, NEW p \in Processes, NEW c \in CallsOf(p), Answered(c), StageOn(p),
         UNCHANGED <<setup, key, moves>>
  PROVE  PluginsInv'
<1>1. PluginsTypes /\ c \in calls /\ c.proc = p /\ c.op # "deregister"
  BY DEF PluginsInv, CallsOf, Answered
<1>2. c \in PluginCalls /\ c.q \in Request /\ c.tab \in Tabs /\ c.prev \in Nat /\ Solo \in Tabs
  BY <1>1, PluginConstants DEF PluginsTypes, PluginCalls
<1>3. PICK n \in Names :
        /\ Granted(c.q, n)
        /\ CASE c.op = "claim" -> Claimed(c, agents'[n].id, n)
             [] c.op = "register" /\ harness[c.proc] = "v1" -> V1Registered(c, agents'[n].id, n)
             [] c.op = "register" /\ harness[c.proc] = "v2" -> V2Registered(c, agents'[n].id, n)
             [] c.op = "register" /\ harness[c.proc] = "pi" -> PiRegistered(c, agents'[n].id, n)
        /\ c.op = "register" => UNCHANGED bound
        /\ given' = [given EXCEPT ![c.proc] = @ \cup {agents'[n].id}]
  BY DEF Answered
<1>4. UNCHANGED <<faults, excused>>
  BY DEF Answered
<1>5. PICK i : i = agents'[n].id
  OBVIOUS
<1>6. WriteRow(n, c.q) /\ i \in Nat \ {0}
  <2>1. WriteRow(n, c.q) /\ RowsOK
    BY <1>3 DEF Granted, PluginsInv
  <2>2. QED BY <1>2, <1>5, <2>1, RowsWritten
<1>7. given' = [given EXCEPT ![p] = @ \cup {i}]
  BY <1>1, <1>3, <1>5
<1>8. harness[p] \in {"v1", "v2", "pi"} /\ c.op \in {"register", "claim"}
  BY <1>1, <1>2 DEF PluginsTypes, PluginCalls, harness
<1>9. own[p][c.tab].id \in Nat
  BY <1>1, <1>2 DEF PluginsTypes, Identity
<1>10. CASE c.op = "claim"
  <2> DEFINE s == IF c.tab = Solo THEN key[p] ELSE c.tab
             ids == IF c.orphan THEN {} ELSE {Previous(c)} \ {i}
  <2>1. Claimed(c, i, n)
    BY <1>3, <1>5, <1>10
  <2>2. /\ own' = [own EXCEPT ![p][c.tab] = IF c.orphan THEN @ ELSE [id |-> i, name |-> n, mode |-> "exact"]]
        /\ bound' = [bound EXCEPT ![s] = IF s = None THEN None ELSE n]
        /\ calls' = (calls \ {c}) \cup Leave(p, ids)
        /\ UNCHANGED <<listed, timer>>
    BY <1>1, <2>1 DEF Claimed
  <2>3. s \in Sessions \cup {None}
    BY <1>1, <1>2, PluginConstants DEF PluginsTypes
  <2>4. Previous(c) \in Nat /\ (harness[p] = "v2" => Previous(c) = own[p][c.tab].id)
    BY <1>1, <1>2, <1>9 DEF Previous
  <2>5. ids \in SUBSET Nat /\ (harness[p] = "v2" /\ ~c.orphan => own[p][c.tab].id \in ids \cup {i})
    BY <2>4
  <2>6. bound' \in [Sessions \cup {None} -> Names \cup {None}]
    BY <1>1, <2>2, <2>3 DEF PluginsTypes
  <2>7. timer' \in [Processes -> BOOLEAN]
    BY <1>1, <2>2 DEF PluginsTypes
  <2> HIDE DEF ids, s
  <2>8. /\ own' \in [Processes -> [Tabs -> Identity]] /\ \A r \in Processes \ {p} : own'[r] = own[r]
        /\ \/ own' = own /\ (harness[p] = "v2" => c.orphan)
           \/ /\ harness[p] = "v2" => ~c.orphan
              /\ \A t \in Tabs \ {c.tab} : own'[p][t] = own[p][t]
              /\ own'[p][c.tab].id = i /\ own'[p][c.tab].name = n
    <3>1. CASE c.orphan
      <4>1. own' = own
        BY <1>1, <1>2, <2>2, <3>1 DEF PluginsTypes
      <4>2. QED BY <1>1, <3>1, <4>1 DEF PluginsTypes
    <3>2. CASE ~c.orphan
      <4> DEFINE e == [id |-> i, name |-> n, mode |-> "exact"]
      <4>1. e \in Identity /\ e.id = i /\ e.name = n
        BY <1>6 DEF Identity
      <4>2. own' = [own EXCEPT ![p] = [own[p] EXCEPT ![c.tab] = e]]
        BY <2>2, <3>2
      <4> HIDE DEF e
      <4>3. QED BY <1>1, <1>2, <3>2, <4>1, <4>2 DEF PluginsTypes
    <3>3. QED BY <3>1, <3>2
  <2>9. Adopts(p, c, n, i, c.tab, ids)
    BY <1>4, <1>5, <1>6, <1>7, <1>10, <2>2, <2>5, <2>6, <2>7, <2>8 DEF Adopts
  <2>10. QED BY <1>1, <1>2, <2>5, <2>9, AdoptsOK
<1>11. CASE c.op = "register" /\ harness[p] = "v2"
  <2> DEFINE ids == IF stage[p] = "closed" THEN {i} ELSE {}
  <2>1. V2Registered(c, i, n) /\ bound' = bound
    BY <1>1, <1>3, <1>5, <1>11
  <2>2. /\ IF c.orphan THEN own' = own ELSE own' = [own EXCEPT ![p][c.tab].id = i, ![p][c.tab].name = n]
        /\ calls' = (calls \ {c}) \cup Leave(p, ids)
        /\ UNCHANGED <<listed, timer>>
    BY <1>1, <2>1 DEF V2Registered
  <2>3. ids \in SUBSET Nat /\ (stage[p] = "closed" => i \in ids)
    BY <1>6
  <2> HIDE DEF ids
  <2>4. /\ own' \in [Processes -> [Tabs -> Identity]] /\ \A r \in Processes \ {p} : own'[r] = own[r]
        /\ \/ own' = own /\ (harness[p] = "v2" => c.orphan)
           \/ /\ harness[p] = "v2" => ~c.orphan
              /\ \A t \in Tabs \ {c.tab} : own'[p][t] = own[p][t]
              /\ own'[p][c.tab].id = i /\ own'[p][c.tab].name = n
    <3>1. CASE c.orphan
      BY <1>1, <2>2, <3>1 DEF PluginsTypes
    <3>2. CASE ~c.orphan
      <4>1. OwnTakes(p, c.tab, i, n) /\ i \in Nat
        BY <1>6, <2>2, <3>2 DEF OwnTakes
      <4>2. QED BY <1>1, <1>2, <3>2, <4>1, OwnAdopts
    <3>3. QED BY <3>1, <3>2
  <2>5. timer' \in [Processes -> BOOLEAN] /\ bound' \in [Sessions \cup {None} -> Names \cup {None}]
    BY <1>1, <2>1, <2>2 DEF PluginsTypes
  <2>6. Adopts(p, c, n, i, c.tab, ids)
    BY <1>4, <1>5, <1>6, <1>7, <1>11, <2>2, <2>3, <2>4, <2>5 DEF Adopts
  <2>7. QED BY <1>1, <1>2, <2>3, <2>6, AdoptsOK
<1>12. CASE c.op = "register" /\ harness[p] # "v2"
  <2>1. (V1Registered(c, i, n) \/ PiRegistered(c, i, n)) /\ bound' = bound
    BY <1>1, <1>3, <1>5, <1>8, <1>12
  <2>2. PICK ids \in SUBSET Nat : calls' = (calls \ {c}) \cup Leave(p, ids)
    <3>1. CASE V1Registered(c, i, n)
      <4>1. calls' = (calls \ {c}) \cup Leave(p, {c.prev} \ {i}) /\ {c.prev} \ {i} \in SUBSET Nat
        BY <1>1, <1>2, <3>1 DEF V1Registered
      <4>2. QED BY <4>1
    <3>2. CASE PiRegistered(c, i, n)
      <4>1. calls' = (calls \ {c}) \cup Leave(p, {}) /\ {} \in SUBSET Nat
        BY <3>2 DEF PiRegistered, Leave
      <4>2. QED BY <4>1
    <3>3. QED BY <2>1, <3>1, <3>2
  <2>3. /\ own' = [own EXCEPT ![p][Solo].id = i, ![p][Solo].name = n]
        /\ timer' = [timer EXCEPT ![p] = @ \/ stage[p] = "loading"]
        /\ UNCHANGED listed
    BY <1>1, <2>1 DEF V1Registered, PiRegistered
  <2>4. /\ own' \in [Processes -> [Tabs -> Identity]] /\ \A r \in Processes \ {p} : own'[r] = own[r]
        /\ \A t \in Tabs \ {Solo} : own'[p][t] = own[p][t]
        /\ own'[p][Solo].id = i /\ own'[p][Solo].name = n
    <3>1. PluginsTypes /\ Solo \in Tabs /\ i \in Nat /\ OwnTakes(p, Solo, i, n)
      BY <1>1, <1>2, <1>6, <2>3 DEF OwnTakes
    <3>2. QED BY <3>1, OwnAdopts
  <2>5. /\ timer' \in [Processes -> BOOLEAN] /\ \A r \in Processes \ {p} : timer'[r] = timer[r]
        /\ bound' \in [Sessions \cup {None} -> Names \cup {None}]
    BY <1>1, <2>1, <2>3 DEF PluginsTypes
  <2>6. timer'[p] = (timer[p] \/ stage[p] = "loading")
    BY <1>1, <2>3 DEF PluginsTypes
  <2>7. Adopts(p, c, n, i, Solo, ids)
    BY <1>4, <1>5, <1>6, <1>7, <1>12, <2>2, <2>3, <2>4, <2>5, <2>6 DEF Adopts
  <2>8. QED BY <1>1, <1>2, <2>7, AdoptsOK
<1>13. QED BY <1>8, <1>10, <1>11, <1>12

-----------------------------------------------------------------------------
(* The plugins: theorems *)

LEMMA PluginStep ==
  ASSUME PluginsInv, NEW p \in Processes, Plugin(p)
  PROVE  PluginsInv'
<1>1. CASE \/ \E s \in Opens[p] \cup {None} : V1Load(p, s)
           \/ \E s \in Opens[p] : V1Event(p, s) \/ PiStart(p, s)
  BY <1>1, SoloAsksStep
<1>2. CASE \E s \in Opens[p] : V2Ensure(p, s)
  BY <1>2, V2EnsureStep
<1>3. CASE \E s \in Opens[p] : V2Deleted(p, s)
  BY <1>3, V2DeletedStep
<1>4. CASE V1Dispose(p) \/ PiShutdown(p)
  BY <1>4, SoloLeavesStep
<1>5. CASE V2Load(p)
  BY <1>5, V2LoadStep
<1>6. CASE V2Close(p)
  BY <1>6, V2CloseStep
<1>7. CASE \E t \in Tabs, n \in Wanted : Claim(p, t, n)
  BY <1>7, ClaimStep
<1>8. QED BY <1>1, <1>2, <1>3, <1>4, <1>5, <1>6, <1>7 DEF Plugin

LEMMA AnswerStep ==
  ASSUME PluginsInv, NEW p \in Processes, Answer(p)
  PROVE  PluginsInv'
<1>1. PICK c \in CallsOf(p) : Answered(c) \/ NotAnswered(c) \/ Deregistered(c)
  BY DEF Answer
<1>2. StageOn(p) /\ UNCHANGED <<setup, key, moves>>
  BY DEF Answer, StageOn
<1>3. CASE Answered(c)
  BY <1>2, <1>3, AnsweredStep
<1>4. CASE NotAnswered(c)
  BY <1>2, <1>4, NotAnsweredStep
<1>5. CASE Deregistered(c)
  BY <1>2, <1>5, DeregisteredStep
<1>6. QED BY <1>1, <1>3, <1>4, <1>5

LEMMA PluginsStep == PluginsInv /\ [PluginsNext]_pluginsVars => PluginsInv'
<1> SUFFICES ASSUME PluginsInv, [PluginsNext]_pluginsVars PROVE PluginsInv'
  OBVIOUS
<1>1. CASE \E p \in Processes : Plugin(p)
  BY <1>1, PluginStep
<1>2. CASE \E p \in Processes : Answer(p)
  BY <1>2, AnswerStep
<1>3. CASE \E p \in Processes : KeepAlive(p)
  BY <1>3, KeepAliveStep
<1>4. CASE \E p \in Processes : Beat(p)
  BY <1>4, BeatStep
<1>5. CASE \E p \in Processes : Crash(p)
  BY <1>5, CrashStep
<1>6. CASE Sweep \/ \E n \in Names : Silent(n)
  BY <1>6, AgeStep
<1>7. CASE UNCHANGED pluginsVars
  <2>1. UNCHANGED <<registryVars, setup, procVars, calls, bound, faults, pastVars>>
    BY <1>7 DEF pluginsVars
  <2>2. RowsOK' /\ IdsMove /\ faults' \in Nat /\ (faults' = 0 => faults = 0)
    BY <2>1, RowsUnchanged DEF PluginsInv, PluginsTypes
  <2>3. QED BY <2>1, <2>2, RowsStep
<1>8. QED BY <1>1, <1>2, <1>3, <1>4, <1>5, <1>6, <1>7 DEF PluginsNext

\* Between every two steps the rows have ids of their own; a plugin knows only
\* ids the daemon gave it; the name it takes an agent to have is that of its
\* row (v2 and Pi: register and claimName); the requests of v2 under way match
\* its sessions; and each row it was given is one of its agents, about to be
\* deregistered, or another plugin's too.
THEOREM PluginsInvariant == PluginsSpec => []PluginsInv
<1>1. QED BY PluginsInitially, PluginsStep, PTL DEF PluginsSpec

\* register "adopts whatever [the daemon] assigned so peers and this session
\* agree on the return address": however answers, claims and sessions overlap,
\* and whatever requests are lost, v2 and Pi never take an agent of theirs to
\* have a name its row has not.
THEOREM PluginsAgreeOnAddress == PluginsSpec => []AgreesOnAddress
<1>1. PluginsInv => AgreesOnAddress
  BY DEF PluginsInv, PluginOK, Agrees, AgreesOnAddress
<1>2. QED BY <1>1, PluginsInvariant, PTL

\* A v2 plugin that was closed with registrations under way deregisters each of
\* them when its answer comes (`if (closed)`): when nothing is under way, no row
\* it was given is left, unless another plugin was given it too.
THEOREM PluginsLeaveNoRow == PluginsSpec => []ClosedLeavesNoRow
<1>1. PluginsInv => ClosedLeavesNoRow
  <2>1. SUFFICES ASSUME PluginsInv, NEW p \in Processes,
                        harness[p] = "v2", stage[p] = "closed", CallsOf(p) = {},
                        ~excused[p], faults = 0,
                        NEW n \in Names, agents[n].id \in given[p]
                 PROVE  \E r \in Processes \ {p} : agents[n].id \in given[r]
    BY DEF ClosedLeavesNoRow
  <2>2. Accounted(p, agents[n].id) /\ listed[p] = {}
    BY <2>1 DEF PluginsInv, PluginOK, Kept, Spared, Staged
  <2>3. QED BY <2>1, <2>2 DEF Accounted, CallsOf
<1>2. QED BY <1>1, PluginsInvariant, PTL

=============================================================================
