---------------------------- MODULE Bridge_proofs ----------------------------
(***************************************************************************)
(* Theorems about the Filament bridges of module Bridge, for any finite    *)
(* sets of devices and agents, any limit of a query and any number of      *)
(* messages and faults.                                                    *)
(*                                                                         *)
(* BridgeInv adds to the properties what makes them inductive.  An id that *)
(* a daemon gave to a shadow belongs to one name for ever, so the messages *)
(* found for a shadow are for its agent, and a pulled message is delivered *)
(* where that agent lives.  A message has one number, above all that were  *)
(* written before.  And what got into a daemon is remembered by the bridge *)
(* beside it, until that is started again.                                 *)
(***************************************************************************)
EXTENDS Bridge, TLAPS, FiniteSetTheorems, WellFoundedInduction

Places == UNION {{e} \X (1..Len(mail[e])) : e \in Devices}
Written == Cardinality(Places)

Letters == [msg : Messages, to : Nat, name : Agents, by : Agents]

CountersOK ==
  /\ faults \in Nat /\ faults <= MaxFaults
  /\ run \in [Devices -> Nat] /\ \A d \in Devices : run[d] <= faults

\* Ids are given one by one: to a name without a row, at first or after a fault.
IdsOK ==
  /\ issued \in [Devices -> Nat]
  /\ rows \in [Devices -> [Agents -> Nat]] /\ shadow \in [Devices -> [Agents -> Nat]]
  /\ \A d \in Devices : issued[d] <= Cardinality({a \in Agents : rows[d][a] # 0}) + faults

\* A shadow is of an agent in the roster, so none is ever pruned.
RosterOK ==
  /\ here \subseteq Agents
  /\ roster \in [Devices -> SUBSET Agents] /\ registering \in [Devices -> SUBSET Agents]
  /\ \A d \in Devices :
       /\ roster[d] \subseteq Remote(d) /\ registering[d] \subseteq roster[d]
       /\ \A a \in Agents : shadow[d][a] # 0 => a \in roster[d]

MailOK ==
  /\ mail \in [Devices -> Seq(Letters)]
  /\ IsFiniteSet(Places)
  /\ \A d \in Devices : \A n \in 1..Len(mail[d]) : mail[d][n].to # 0 /\ mail[d][n].msg <= Written

\* id was given to the shadow of a in d's daemon.
IsOf(d, id, a) ==
  \/ rows[d][a] = id \/ shadow[d][a] = id
  \/ \E n \in 1..Len(mail[d]) : mail[d][n].to = id /\ mail[d][n].name = a

OneNamePerId ==
  \A d \in Devices, id \in Nat \ {0}, a, b \in Agents :
    IsOf(d, id, a) => id <= issued[d] /\ (IsOf(d, id, b) => a = b)

OneNamePerMessage ==
  \A d, e \in Devices : \A n \in 1..Len(mail[d]), k \in 1..Len(mail[e]) :
    mail[d][n].msg = mail[e][k].msg => mail[d][n].name = mail[e][k].name

SendOK ==
  /\ cursor \in [Devices -> [Ids -> Nat]]
  /\ \A d \in Devices, i \in Ids : cursor[d][i] <= Len(mail[d])
  /\ forwarded \in [Devices -> SUBSET Messages]
  /\ failures \in [Devices -> [Devices -> 0..3]]

\* A request that is awaited is the first of a peer that failed less than three times.
BatchOK(d) ==
  /\ batch[d] \in [id : Nat, read : SUBSET Nat, left : SUBSET Nat]
  /\ batch[d].read \subseteq 1..Len(mail[d]) /\ batch[d].left \subseteq batch[d].read
  /\ batch[d].read # {} => batch[d].id \in Ids
  /\ loop[d] = "wait" => batch[d].left # {} /\ Healthy(d, PeerOf(Current(d).name))

\* What was pulled is for agents of the device that pulled it.
AnswerOK(d) ==
  /\ answer[d] \in [from : Devices, left : SUBSET Nat]
  /\ answer[d].left \subseteq 1..Len(mail[answer[d].from])
  /\ \A n \in answer[d].left : Home[mail[answer[d].from][n].name] = d

TodoOK(d) == loop[d] \notin {"forward", "wait"} => todo[d] \subseteq Peers(d)

LoopOK ==
  /\ loop \in [Devices -> Turns]
  /\ DOMAIN todo = Devices /\ DOMAIN batch = Devices /\ DOMAIN answer = Devices
  /\ \A d \in Devices : TodoOK(d) /\ BatchOK(d) /\ AnswerOK(d)

\* A delivery is of a message that was written, on its way to its recipient.
CallOK(c) ==
  /\ c \in Calls /\ c.to = Home[c.name]
  /\ \E n \in 1..Len(mail[c.from]) : mail[c.from][n].msg = c.msg /\ mail[c.from][n].name = c.name
  /\ c.stage = "ok" => injected[c.msg] > 0
  /\ c.again => run[c.to] > 0

CallsOK == \A c \in calls : CallOK(c)

HistoryOK ==
  /\ injected \in [Messages -> Nat] /\ pulled \subseteq Messages
  /\ \A m \in Messages : injected[m] > 0 => m <= Written

\* What got in is remembered, until a restart.
Remembered ==
  \A d \in Devices : \A n \in 1..Len(mail[d]) :
    injected[mail[d][n].msg] > 0 =>
      \/ mail[d][n].msg \in forwarded[Home[mail[d][n].name]]
      \/ run[Home[mail[d][n].name]] > 0

\* The daemons with the roster, and what became of the messages.
WorldOK == CountersOK /\ IdsOK /\ RosterOK /\ MailOK /\ OneNamePerId /\ OneNamePerMessage
PastOK == HistoryOK /\ Remembered /\ ForwardedArrived

BridgeInv == WorldOK /\ SendOK /\ LoopOK /\ CallsOK /\ PastOK

-----------------------------------------------------------------------------
(* What the definitions give *)

\* A set of places in a mailbox has a least and a greatest member.
LEMMA LeastIsMember ==
  ASSUME NEW S \in SUBSET Nat, S # {}
  PROVE  Least(S) \in S
<1>1. PICK x \in S : \A y \in S : ~(<<y, x>> \in OpToRel(<, Nat))
  BY WFMin, NatLessThanWellFounded
<1>2. \A y \in S : x <= y
  <2>1. \A i, j \in Nat : i < j => <<i, j>> \in OpToRel(<, Nat)
    BY DEF OpToRel
  <2>2. SUFFICES ASSUME NEW y \in S PROVE x <= y
    OBVIOUS
  <2>3. ~(y < x)
    BY <1>1, <2>1
  <2>4. QED BY <2>3
<1>3. QED BY <1>2 DEF Least

LEMMA GreatestIsMember ==
  ASSUME NEW N \in Nat, NEW S \in SUBSET (0..N), S # {}
  PROVE  Greatest(S) \in S
<1> DEFINE T == {N - k : k \in S}
<1>1. T \subseteq Nat /\ T # {}
  <2>1. PICK k \in S : TRUE
    OBVIOUS
  <2>2. N - k \in T
    OBVIOUS
  <2>3. QED BY <2>2
<1>2. PICK x \in T : \A y \in T : ~(<<y, x>> \in OpToRel(<, Nat))
  BY <1>1, WFMin, NatLessThanWellFounded
<1>3. \A y \in T : x <= y
  <2>1. \A i, j \in Nat : i < j => <<i, j>> \in OpToRel(<, Nat)
    BY DEF OpToRel
  <2>2. SUFFICES ASSUME NEW y \in T PROVE x <= y
    OBVIOUS
  <2>3. x \in Nat /\ y \in Nat
    BY <1>1, <1>2
  <2>4. ~(y < x)
    BY <1>2, <2>1, <2>2, <2>3
  <2>5. QED BY <2>3, <2>4
<1>4. PICK m \in S : x = N - m
  OBVIOUS
<1>5. \A k \in S : k <= m
  <2>1. SUFFICES ASSUME NEW k \in S PROVE k <= m
    OBVIOUS
  <2>2. N - k \in T
    OBVIOUS
  <2>3. QED BY <1>3, <1>4, <2>2
<1>6. QED BY <1>4, <1>5 DEF Greatest

LEMMA IdsAreNumbers ==
  /\ MaxFaults \in Nat /\ MaxMessages \in Nat
  /\ Cardinality(Agents) \in Nat /\ Ids \subseteq Nat \ {0}
  /\ \A i \in Nat : i # 0 /\ i <= Cardinality(Agents) + MaxFaults => i \in Ids
<1>1. MaxFaults \in Nat /\ MaxMessages \in Nat
  BY BoundsAssumption DEF BoundsAssumption
<1>2. Cardinality(Agents) \in Nat
  BY FiniteAssumption, FS_CardinalityType DEF FiniteAssumption
<1>3. QED BY <1>1, <1>2 DEF Ids

\* Ids in use are ids of the range, so the cursor has a place for each.
LEMMA IdInRange ==
  ASSUME CountersOK, IdsOK, OneNamePerId, NEW d \in Devices, NEW a \in Agents
  PROVE  /\ issued[d] <= Cardinality(Agents) + MaxFaults
         /\ rows[d][a] <= issued[d] /\ shadow[d][a] <= issued[d]
         /\ rows[d][a] # 0 => rows[d][a] \in Ids
         /\ shadow[d][a] # 0 => shadow[d][a] \in Ids
<1>1. issued[d] \in Nat /\ rows[d][a] \in Nat /\ shadow[d][a] \in Nat
  BY DEF IdsOK
<1>2. issued[d] <= Cardinality(Agents) + MaxFaults
  <2> DEFINE R == {b \in Agents : rows[d][b] # 0}
  <2>1. IsFiniteSet(R) /\ Cardinality(R) <= Cardinality(Agents)
    BY FiniteAssumption, FS_Subset DEF FiniteAssumption
  <2>2. Cardinality(R) \in Nat
    BY <2>1, FS_CardinalityType
  <2>3. issued[d] <= Cardinality(R) + faults
    BY DEF IdsOK
  <2>4. faults \in Nat /\ faults <= MaxFaults
    BY DEF CountersOK
  <2>5. QED BY <1>1, <2>1, <2>2, <2>3, <2>4, IdsAreNumbers
<1>3. rows[d][a] <= issued[d]
  <2>1. IsOf(d, rows[d][a], a)
    BY DEF IsOf
  <2>2. QED BY <1>1, <2>1 DEF OneNamePerId
<1>4. shadow[d][a] <= issued[d]
  <2>1. IsOf(d, shadow[d][a], a)
    BY DEF IsOf
  <2>2. QED BY <1>1, <2>1 DEF OneNamePerId
<1>5. QED BY <1>1, <1>2, <1>3, <1>4, IdsAreNumbers

\* What a row of a mailbox says.
LEMMA LetterAt ==
  ASSUME MailOK, NEW d \in Devices, NEW n \in 1..Len(mail[d])
  PROVE  /\ mail[d][n] \in Letters /\ mail[d][n].msg \in Messages /\ mail[d][n].name \in Agents
         /\ Home[mail[d][n].name] \in Devices /\ n \in Nat
<1>1. mail[d] \in Seq(Letters)
  BY DEF MailOK
<1>2. mail[d][n] \in Letters /\ n \in Nat
  BY <1>1
<1>3. QED BY <1>2, HomeAssumption DEF Letters, HomeAssumption

\* The first row of a batch that is not done is a row of the mailbox.
LEMMA CurrentIsLetter ==
  ASSUME MailOK, NEW d \in Devices, BatchOK(d), batch[d].left # {}
  PROVE  /\ Least(batch[d].left) \in batch[d].left
         /\ Least(batch[d].left) \in 1..Len(mail[d])
         /\ Current(d) \in Letters /\ Home[Current(d).name] \in Devices
<1>1. Least(batch[d].left) \in batch[d].left
  BY LeastIsMember DEF BatchOK
<1>2. Least(batch[d].left) \in 1..Len(mail[d])
  BY <1>1 DEF BatchOK
<1>3. Current(d) \in Letters
  BY <1>2 DEF Current, MailOK
<1>4. QED BY <1>1, <1>2, <1>3, HomeAssumption DEF HomeAssumption, Letters

\* The cursor stays within the mailbox.
LEMMA AdvancesInRange ==
  ASSUME MailOK, SendOK, NEW d \in Devices, BatchOK(d), NEW done, Advances(d, done),
         done \subseteq batch[d].read
  PROVE  /\ cursor' \in [Devices -> [Ids -> Nat]]
         /\ \A e \in Devices, i \in Ids : cursor'[e][i] <= Len(mail[e])
<1>1. CASE done = {}
  BY <1>1 DEF Advances, SendOK
<1>2. CASE done # {}
  <2>1. Len(mail[d]) \in Nat
    BY DEF MailOK
  <2>2. done \in SUBSET (1..Len(mail[d])) /\ batch[d].id \in Ids
    BY <1>2 DEF BatchOK
  <2>3. Greatest(done) \in 1..Len(mail[d])
    BY <1>2, <2>1, <2>2, 1..Len(mail[d]) \subseteq 0..Len(mail[d]), GreatestIsMember
  <2>4. cursor' = [cursor EXCEPT ![d][batch[d].id] = Greatest(done)]
    BY <1>2 DEF Advances
  <2>5. QED BY <2>1, <2>2, <2>3, <2>4 DEF SendOK
<1>3. QED BY <1>1, <1>2

-----------------------------------------------------------------------------
(* The initial states *)

LEMMA BridgeInit == Init => BridgeInv
<1> SUFFICES ASSUME Init PROVE BridgeInv
  OBVIOUS
<1>1. CountersOK
  BY IdsAreNumbers DEF Init, CountersOK
<1>2. \A d \in Devices : mail[d] = <<>> /\ Len(mail[d]) = 0
  BY DEF Init
<1>3. IdsOK
  <2>1. ASSUME NEW d \in Devices
        PROVE  issued[d] <= Cardinality({a \in Agents : rows[d][a] # 0}) + faults
    <3>1. {a \in Agents : rows[d][a] # 0} = {}
      BY DEF Init
    <3>2. issued[d] = 0 /\ faults = 0
      BY DEF Init
    <3>3. QED BY <3>1, <3>2, FS_EmptySet
  <2>2. QED BY <2>1 DEF Init, IdsOK
<1>4. RosterOK
  BY DEF Init, RosterOK
<1>5. MailOK
  <2>1. Places = {}
    BY <1>2 DEF Places
  <2>2. mail \in [Devices -> Seq(Letters)]
    BY DEF Init
  <2>3. QED BY <1>2, <2>1, <2>2, FS_EmptySet DEF MailOK
<1>6. OneNamePerId /\ OneNamePerMessage
  BY <1>2 DEF Init, OneNamePerId, OneNamePerMessage, IsOf
<1>7. SendOK
  BY <1>2, IdsAreNumbers DEF Init, SendOK
<1>8. LoopOK
  BY <1>2 DEF Init, LoopOK, TodoOK, BatchOK, AnswerOK, NoBatch, Peers, Turns
<1>9. CallsOK /\ HistoryOK /\ Remembered /\ ForwardedArrived
  BY <1>2 DEF Init, CallsOK, HistoryOK, Remembered, ForwardedArrived, Messages
<1>10. QED
  BY <1>1, <1>3, <1>4, <1>5, <1>6, <1>7, <1>8, <1>9 DEF BridgeInv, WorldOK, PastOK

-----------------------------------------------------------------------------
(* What a step leaves as it was *)

FaultOrNot == Fault \/ UNCHANGED faults

LEMMA CountersKept ==
  ASSUME CountersOK, UNCHANGED run, FaultOrNot
  PROVE  CountersOK'
BY IdsAreNumbers DEF CountersOK, FaultOrNot, Fault

LEMMA IdsKept ==
  ASSUME CountersOK, IdsOK, UNCHANGED <<issued, rows, shadow>>, FaultOrNot
  PROVE  IdsOK'
<1>1. faults \in Nat /\ faults' \in Nat /\ faults <= faults'
  BY DEF CountersOK, FaultOrNot, Fault
<1>2. ASSUME NEW d \in Devices
      PROVE  issued'[d] <= Cardinality({a \in Agents : rows'[d][a] # 0}) + faults'
  <2> DEFINE R == {a \in Agents : rows[d][a] # 0}
  <2>1. issued[d] \in Nat /\ issued[d] <= Cardinality(R) + faults
    BY DEF IdsOK
  <2>2. Cardinality(R) \in Nat
    BY FiniteAssumption, FS_Subset, FS_CardinalityType DEF FiniteAssumption
  <2>3. R = {a \in Agents : rows'[d][a] # 0}
    OBVIOUS
  <2> HIDE DEF R
  <2>4. QED BY <1>1, <2>1, <2>2, <2>3
<1>3. QED BY <1>2 DEF IdsOK

LEMMA MailKept ==
  ASSUME MailOK, OneNamePerMessage, UNCHANGED mail
  PROVE  MailOK' /\ OneNamePerMessage' /\ Written' = Written
<1>1. Places' = Places
  BY DEF Places
<1>2. Written' = Written
  BY <1>1 DEF Written
<1>3. QED
  BY <1>1, <1>2 DEF MailOK, OneNamePerMessage

LEMMA NamesKept ==
  ASSUME OneNamePerId, UNCHANGED <<issued, rows, shadow, mail>>
  PROVE  OneNamePerId'
BY DEF OneNamePerId, IsOf

LEMMA WorldKept ==
  ASSUME WorldOK, UNCHANGED <<daemonVars, shadowVars, run>>, FaultOrNot
  PROVE  WorldOK'
<1>1. UNCHANGED <<here, rows, issued, mail, roster, shadow, registering, run>>
  BY DEF daemonVars, shadowVars
<1>2. RosterOK'
  BY <1>1 DEF WorldOK, RosterOK
<1>3. QED
  BY <1>1, <1>2, CountersKept, IdsKept, MailKept, NamesKept DEF WorldOK

LEMMA SendKept ==
  ASSUME SendOK, UNCHANGED <<mail, sendVars>>
  PROVE  SendOK'
BY DEF SendOK, sendVars

\* The loop of a device is about its own variables.
LEMMA LoopKept ==
  ASSUME LoopOK, UNCHANGED mail, NEW d \in Devices,
         loop' \in [Devices -> Turns],
         DOMAIN todo' = Devices, DOMAIN batch' = Devices, DOMAIN answer' = Devices,
         \A e \in Devices \ {d} : /\ loop'[e] = loop[e] /\ todo'[e] = todo[e]
                                /\ batch'[e] = batch[e] /\ answer'[e] = answer[e]
                                /\ failures'[e] = failures[e],
         TodoOK(d)', BatchOK(d)', AnswerOK(d)'
  PROVE  LoopOK'
<1>1. ASSUME NEW e \in Devices \ {d} PROVE TodoOK(e)' /\ BatchOK(e)' /\ AnswerOK(e)'
  <2>1. /\ loop'[e] = loop[e] /\ todo'[e] = todo[e] /\ batch'[e] = batch[e]
        /\ answer'[e] = answer[e] /\ failures'[e] = failures[e]
    BY <1>1
  <2>2. TodoOK(e) /\ BatchOK(e) /\ AnswerOK(e)
    BY <1>1 DEF LoopOK
  <2>3. QED
    BY <2>1, <2>2 DEF TodoOK, BatchOK, AnswerOK, Peers, Healthy, PeerOf, Current
<1>2. QED BY <1>1 DEF LoopOK

LEMMA LoopUntouched ==
  ASSUME LoopOK, UNCHANGED <<mail, failures, loopVars>>
  PROVE  LoopOK'
BY DEF LoopOK, loopVars, TodoOK, BatchOK, AnswerOK, Peers, Healthy, PeerOf, Current

\* A delivery stays what it was while others go on.
LEMMA CallStays ==
  ASSUME NEW c, CallOK(c), UNCHANGED mail,
         \A m \in Messages : injected[m] > 0 => injected'[m] > 0,
         \A d \in Devices : run[d] > 0 => run'[d] > 0
  PROVE  CallOK(c)'
BY DEF CallOK, Calls

LEMMA CallsKept ==
  ASSUME CallsOK, UNCHANGED <<mail, run, injected>>,
         \A c \in calls' : c \in calls \/ CallOK(c)
  PROVE  CallsOK'
BY DEF CallsOK, CallOK

LEMMA PastKept ==
  ASSUME MailOK, OneNamePerMessage, PastOK, UNCHANGED <<mail, forwarded, run, historyVars>>
  PROVE  PastOK'
<1>1. Written' = Written
  BY MailKept
<1>2. UNCHANGED <<injected, pulled>>
  BY DEF historyVars
<1>3. HistoryOK'
  BY <1>1, <1>2 DEF PastOK, HistoryOK
<1>4. Remembered'
  BY <1>2 DEF PastOK, Remembered
<1>5. ForwardedArrived'
  BY <1>2 DEF PastOK, ForwardedArrived
<1>6. QED BY <1>3, <1>4, <1>5 DEF PastOK

-----------------------------------------------------------------------------
(* Registration and the roster *)

\* A registration gives the next id to a name that has no row, or none at all.
LEMMA RegistersIds ==
  ASSUME IdsOK, OneNamePerId, NEW d \in Devices, NEW a \in Agents, Registers(d, a)
  PROVE  /\ issued' \in [Devices -> Nat] /\ rows' \in [Devices -> [Agents -> Nat]]
         /\ RowId(d, a) \in Nat \ {0} /\ RowId(d, a) <= issued'[d]
         /\ rows'[d][a] = RowId(d, a)
         /\ rows[d][a] = 0 => RowId(d, a) = issued[d] + 1
         /\ \A e \in Devices : issued[e] <= issued'[e]
         /\ \A e \in Devices, x \in Agents : e # d \/ x # a => rows'[e][x] = rows[e][x]
<1>1. issued \in [Devices -> Nat] /\ rows \in [Devices -> [Agents -> Nat]]
  BY DEF IdsOK
<1>2. rows[d][a] \in Nat /\ issued[d] \in Nat
  BY <1>1
<1>3. CASE rows[d][a] # 0
  <2>1. issued' = issued /\ rows' = rows /\ RowId(d, a) = rows[d][a]
    BY <1>3 DEF Registers, RowId
  <2>2. IsOf(d, rows[d][a], a)
    BY DEF IsOf
  <2>3. rows[d][a] <= issued[d]
    BY <1>2, <1>3, <2>2 DEF OneNamePerId
  <2>4. QED BY <1>1, <1>2, <1>3, <2>1, <2>3
<1>4. CASE rows[d][a] = 0
  <2>1. /\ issued' = [issued EXCEPT ![d] = @ + 1]
        /\ rows' = [rows EXCEPT ![d][a] = issued[d] + 1]
        /\ RowId(d, a) = issued[d] + 1
    BY <1>4 DEF Registers, RowId
  <2>2. QED BY <1>1, <1>2, <1>4, <2>1
<1>5. QED BY <1>3, <1>4

LEMMA RegistersBound ==
  ASSUME CountersOK, IdsOK, NEW d \in Devices, NEW a \in Agents,
         Registers(d, a), UNCHANGED faults, NEW e \in Devices
  PROVE  issued'[e] <= Cardinality({x \in Agents : rows'[e][x] # 0}) + faults'
<1> DEFINE R == {x \in Agents : rows[e][x] # 0}
           S == {x \in Agents : rows'[e][x] # 0}
<1>1. issued[e] <= Cardinality(R) + faults /\ issued[e] \in Nat /\ faults \in Nat
  BY DEF IdsOK, CountersOK
<1>2. IsFiniteSet(R) /\ Cardinality(R) \in Nat
  BY FiniteAssumption, FS_Subset, FS_CardinalityType DEF FiniteAssumption
<1>3. CASE rows[d][a] # 0 \/ e # d
  <2>1. issued'[e] = issued[e] /\ \A x \in Agents : rows'[e][x] = rows[e][x]
    BY <1>3 DEF Registers, IdsOK
  <2>2. S = R
    BY <2>1
  <2>3. QED BY <1>1, <2>1, <2>2
<1>4. CASE rows[d][a] = 0 /\ e = d
  <2>1. issued'[e] = issued[e] + 1
    BY <1>4 DEF Registers, IdsOK
  <2>2. \A x \in Agents : rows'[e][x] = IF x = a THEN issued[d] + 1 ELSE rows[e][x]
    BY <1>4 DEF Registers, IdsOK
  <2>3. S = R \cup {a} /\ a \notin R
    BY <1>1, <1>4, <2>2
  <2>4. Cardinality(S) = Cardinality(R) + 1
    BY <1>2, <2>3, FS_AddElement
  <2> HIDE DEF R, S
  <2>5. issued'[e] <= Cardinality(S) + faults'
    BY <1>1, <1>2, <2>1, <2>4
  <2>6. QED BY <2>5 DEF S
<1>5. QED BY <1>3, <1>4

\* The names of the ids stay as they were; a new id is of the name registered.
LEMMA RegistersNames ==
  ASSUME CountersOK, IdsOK, OneNamePerId, NEW d \in Devices, NEW a \in Agents,
         Registers(d, a), UNCHANGED <<faults, mail>>,
         \A e \in Devices, x \in Agents :
           \/ shadow'[e][x] = shadow[e][x]
           \/ e = d /\ x = a /\ shadow'[e][x] = RowId(d, a)
  PROVE  OneNamePerId'
<1>1. /\ RowId(d, a) \in Nat \ {0} /\ RowId(d, a) <= issued'[d]
      /\ rows'[d][a] = RowId(d, a)
      /\ rows[d][a] = 0 => RowId(d, a) = issued[d] + 1
      /\ \A e \in Devices : issued[e] <= issued'[e]
      /\ \A e \in Devices, x \in Agents : e # d \/ x # a => rows'[e][x] = rows[e][x]
  BY RegistersIds
<1>2. \A e \in Devices : issued[e] \in Nat /\ issued'[e] \in Nat
  BY RegistersIds DEF IdsOK
<1> DEFINE New(e, i, x) == e = d /\ x = a /\ i = RowId(d, a) /\ rows[d][a] = 0
<1>3. ASSUME NEW e \in Devices, NEW i \in Nat \ {0}, NEW x \in Agents, IsOf(e, i, x)'
      PROVE  IsOf(e, i, x) \/ New(e, i, x)
  <2>1. CASE e = d /\ x = a /\ i = RowId(d, a)
    BY <2>1 DEF IsOf, RowId
  <2>2. CASE ~(e = d /\ x = a /\ i = RowId(d, a))
    BY <1>1, <1>3, <2>2 DEF IsOf
  <2>3. QED BY <2>1, <2>2
<1>4. \A e \in Devices, i \in Nat \ {0}, x \in Agents : IsOf(e, i, x) => i <= issued[e]
  BY DEF OneNamePerId
<1>5. ASSUME NEW e \in Devices, NEW i \in Nat \ {0}, NEW x \in Agents, IsOf(e, i, x)'
      PROVE  i <= issued'[e]
  BY <1>1, <1>2, <1>3, <1>4, <1>5
<1>6. ASSUME NEW e \in Devices, NEW i \in Nat \ {0}, NEW x \in Agents, NEW y \in Agents,
             IsOf(e, i, x)', IsOf(e, i, y)'
      PROVE  x = y
  <2>1. IsOf(e, i, x) \/ New(e, i, x)
    BY <1>3, <1>6
  <2>2. IsOf(e, i, y) \/ New(e, i, y)
    BY <1>3, <1>6
  <2>3. CASE IsOf(e, i, x) /\ IsOf(e, i, y)
    BY <2>3 DEF OneNamePerId
  <2>4. CASE New(e, i, x) \/ New(e, i, y)
    BY <1>1, <1>2, <1>4, <2>1, <2>2, <2>4
  <2>5. QED BY <2>1, <2>2, <2>3, <2>4
<1>7. QED BY <1>5, <1>6 DEF OneNamePerId

LEMMA RegistersWorld ==
  ASSUME WorldOK, NEW d \in Devices, NEW a \in Agents, Registers(d, a),
         UNCHANGED <<here, mail, roster, run, faults>>,
         registering' = registering \/ registering' = [registering EXCEPT ![d] = @ \ {a}],
         \/ shadow' = shadow
         \/ a \in registering[d] /\ shadow' = [shadow EXCEPT ![d][a] = RowId(d, a)]
  PROVE  WorldOK'
<1>1. CountersOK'
  BY CountersKept DEF WorldOK, FaultOrNot
<1>2. MailOK' /\ OneNamePerMessage'
  BY MailKept DEF WorldOK
<1>3. shadow' \in [Devices -> [Agents -> Nat]]
  <2>1. RowId(d, a) \in Nat
    BY RegistersIds DEF WorldOK
  <2>2. QED BY <2>1 DEF WorldOK, IdsOK
<1>4. \A e \in Devices, x \in Agents :
        \/ shadow'[e][x] = shadow[e][x]
        \/ e = d /\ x = a /\ a \in registering[d] /\ shadow'[e][x] = RowId(d, a)
  BY DEF WorldOK, IdsOK
<1>5. IdsOK'
  BY <1>3, RegistersIds, RegistersBound DEF WorldOK, IdsOK
<1>6. RosterOK'
  BY <1>4 DEF WorldOK, RosterOK
<1>7. OneNamePerId'
  BY <1>4, RegistersNames DEF WorldOK
<1>8. QED BY <1>1, <1>2, <1>5, <1>6, <1>7 DEF WorldOK

LEMMA RegisteredStep ==
  ASSUME BridgeInv, NEW d \in Devices, NEW a \in Agents, Registered(d, a)
  PROVE  BridgeInv'
<1>1. UNCHANGED <<here, mail, roster, sendVars, loopVars, calls, run, faults, historyVars>>
  BY DEF Registered
<1>2. WorldOK'
  BY <1>1, RegistersWorld DEF BridgeInv, Registered
<1>3. UNCHANGED <<forwarded, failures, injected>>
  BY <1>1 DEF sendVars, historyVars
<1>4. SendOK' /\ LoopOK'
  BY <1>1, <1>3, SendKept, LoopUntouched DEF BridgeInv
<1>5. CallsOK'
  BY <1>1, <1>3, CallsKept DEF BridgeInv
<1>6. PastOK'
  BY <1>1, <1>3, PastKept DEF BridgeInv, WorldOK
<1>7. QED BY <1>2, <1>4, <1>5, <1>6 DEF BridgeInv

\* Nothing is pruned: a shadow is of an agent in the roster, which only grows.
LEMMA HandleRosterWorld ==
  ASSUME WorldOK, NEW d \in Devices, NEW named \in SUBSET Remote(d), HandleRoster(d, named),
         UNCHANGED <<here, issued, mail, run, faults>>
  PROVE  WorldOK'
<1>1. PICK aged \in SUBSET {a \in Agents : shadow[d][a] # 0} :
        LET known == roster[d] \cup named
            missing == {a \in known : shadow[d][a] = 0}
            old == TooOld(aged, known)
        IN /\ roster' = [roster EXCEPT ![d] = known]
           /\ registering' = [registering EXCEPT ![d] = @ \cup missing]
           /\ shadow' = [shadow EXCEPT ![d] = [a \in Agents |-> IF a \in old THEN 0 ELSE @[a]]]
           /\ rows' = [rows EXCEPT ![d] = [a \in Agents |-> IF a \in old THEN 0 ELSE @[a]]]
  BY DEF HandleRoster
<1> DEFINE known == roster[d] \cup named
<1>2. TooOld(aged, known) = {}
  BY DEF TooOld, WorldOK, RosterOK
<1>3. shadow' = shadow
  BY <1>1, <1>2 DEF WorldOK, IdsOK
<1>4. rows' = rows
  BY <1>1, <1>2 DEF WorldOK, IdsOK
<1>5. RosterOK'
  BY <1>1, <1>3 DEF WorldOK, RosterOK, Remote
<1>6. QED
  BY <1>3, <1>4, <1>5, CountersKept, IdsKept, MailKept, NamesKept DEF WorldOK, FaultOrNot

LEMMA GossipStep ==
  ASSUME BridgeInv, NEW d \in Devices, NEW p \in Devices, Gossip(d, p)
  PROVE  BridgeInv'
<1>1. UNCHANGED <<here, issued, mail, sendVars, loop, batch, answer, calls, run, faults, historyVars>>
  BY DEF Gossip
<1>2. p # d
  BY DEF Gossip, BridgeInv, LoopOK, TodoOK, Peers
<1>3. WorldOK'
  <2>1. Located(d) \cap here \in SUBSET Remote(p)
    BY <1>2 DEF Located, Remote
  <2>2. CASE HandleRoster(p, Located(d) \cap here)
    BY <1>1, <2>1, <2>2, HandleRosterWorld DEF BridgeInv
  <2>3. CASE UNCHANGED <<rows, shadowVars>>
    BY <1>1, <2>3, WorldKept DEF BridgeInv, daemonVars, FaultOrNot
  <2>4. QED BY <2>2, <2>3 DEF Gossip
<1>4. UNCHANGED <<forwarded, failures, injected>>
  BY <1>1 DEF sendVars, historyVars
<1>5. SendOK'
  BY <1>1, SendKept DEF BridgeInv
<1>6. LoopOK'
  <2>1. todo' = [todo EXCEPT ![d] = @ \ {p}]
    BY DEF Gossip
  <2>2. \A e \in Devices : todo'[e] \subseteq todo[e]
    BY <2>1 DEF BridgeInv, LoopOK
  <2>3. QED
    BY <1>1, <1>4, <2>1, <2>2
    DEF BridgeInv, LoopOK, TodoOK, BatchOK, AnswerOK, Peers, Healthy, PeerOf, Current
<1>7. CallsOK'
  BY <1>1, <1>4, CallsKept DEF BridgeInv
<1>8. PastOK'
  BY <1>1, <1>4, PastKept DEF BridgeInv, WorldOK
<1>9. QED BY <1>3, <1>5, <1>6, <1>7, <1>8 DEF BridgeInv

LEMMA PullRosterStep ==
  ASSUME BridgeInv, NEW d \in Devices, NEW p \in Devices, PullRoster(d, p)
  PROVE  BridgeInv'
<1>1. UNCHANGED <<here, issued, mail, sendVars, batch, calls, run, faults, historyVars>>
  BY DEF PullRoster
<1>2. loop[d] = "pull" /\ p \in todo[d] /\ p # d /\ todo[d] \subseteq Peers(d)
  BY DEF PullRoster, BridgeInv, LoopOK, TodoOK, Peers
<1>3. WorldOK'
  <2>1. Located(p) \cap here \in SUBSET Remote(d)
    BY <1>2 DEF Located, Remote
  <2>2. CASE HandleRoster(d, Located(p) \cap here)
    BY <1>1, <2>1, <2>2, HandleRosterWorld DEF BridgeInv
  <2>3. CASE UNCHANGED <<rows, shadowVars>>
    BY <1>1, <2>3, WorldKept DEF BridgeInv, daemonVars, FaultOrNot
  <2>4. QED BY <2>2, <2>3 DEF PullRoster
<1>4. UNCHANGED <<forwarded, failures, injected>>
  BY <1>1 DEF sendVars, historyVars
<1>5. SendOK'
  BY <1>1, SendKept DEF BridgeInv
<1>6. LoopOK'
  <2>1. /\ loop' = [loop EXCEPT ![d] = "ask"] /\ todo' = [todo EXCEPT ![d] = @ \ {p}]
        /\ answer' = [answer EXCEPT ![d] = [from |-> p, left |-> {}]]
    BY DEF PullRoster
  <2>2. LoopOK
    BY DEF BridgeInv
  <2>3. loop'[d] = "ask" /\ todo'[d] = todo[d] \ {p} /\ answer'[d] = [from |-> p, left |-> {}]
    BY <2>1, <2>2 DEF LoopOK
  <2>4. TodoOK(d)' /\ AnswerOK(d)'
    BY <1>2, <2>3 DEF TodoOK, AnswerOK, Peers
  <2>5. BatchOK(d)'
    BY <1>1, <2>2, <2>3 DEF LoopOK, BatchOK
  <2>6. QED
    BY <1>1, <1>4, <2>1, <2>2, <2>4, <2>5, LoopKept DEF LoopOK, Turns
<1>7. CallsOK'
  BY <1>1, <1>4, CallsKept DEF BridgeInv
<1>8. PastOK'
  BY <1>1, <1>4, PastKept DEF BridgeInv, WorldOK
<1>9. QED BY <1>3, <1>5, <1>6, <1>7, <1>8 DEF BridgeInv

-----------------------------------------------------------------------------
(* The handler of a delivery *)

\* An answered delivery is what it was, but for its stage.
LEMMA AnsweredCalls ==
  ASSUME NEW c \in Calls, NEW stage \in {"sent", "inject", "ok", "error"}, Answers(c, stage)
  PROVE  \A x \in calls' :
           \/ x \in calls
           \/ /\ x \in Calls /\ x.stage = stage
              /\ x.from = c.from /\ x.to = c.to /\ x.msg = c.msg /\ x.name = c.name
              /\ x.again = c.again
<1> DEFINE x0 == [c EXCEPT !.stage = stage]
<1>1. /\ x0 \in Calls /\ x0.stage = stage
      /\ x0.from = c.from /\ x0.to = c.to /\ x0.msg = c.msg /\ x0.name = c.name
      /\ x0.again = c.again
  BY DEF Calls
<1>2. \A x \in calls' : x \in calls \/ x = x0
  BY DEF Answers, Moves
<1> HIDE DEF x0
<1>3. QED BY <1>1, <1>2

LEMMA BeginStep ==
  ASSUME BridgeInv, NEW c \in calls, c.to \in Devices, Begin(c)
  PROVE  BridgeInv'
<1>1. UNCHANGED <<daemonVars, shadowVars, sendVars, loopVars, run, faults, historyVars>>
  BY DEF Begin
<1>2. UNCHANGED <<mail, forwarded, failures, injected>>
  BY <1>1 DEF daemonVars, sendVars, historyVars
<1>3. CallOK(c) /\ c \in Calls
  BY DEF BridgeInv, CallsOK, CallOK
<1>4. CallsOK'
  <2>1. CASE c.msg \in forwarded[c.to]
    <3>1. Answers(c, "error")
      BY <2>1 DEF Begin
    <3>2. \A x \in calls' : x \in calls \/ CallOK(x)
      BY <1>3, <3>1, AnsweredCalls DEF CallOK
    <3>3. QED BY <1>1, <1>2, <3>2, CallsKept DEF BridgeInv
  <2>2. CASE c.msg \notin forwarded[c.to]
    <3> DEFINE x0 == [c EXCEPT !.stage = "inject", !.again = injected[c.msg] > 0]
    <3>1. calls' = (calls \ {c}) \cup {x0}
      BY <2>2 DEF Begin
    <3>2. /\ x0.stage = "inject" /\ x0.again = (injected[c.msg] > 0)
          /\ x0.from = c.from /\ x0.to = c.to /\ x0.msg = c.msg /\ x0.name = c.name
      BY <1>3 DEF Calls
    <3>3. x0 \in Calls
      <4>1. \A b \in BOOLEAN : [c EXCEPT !.stage = "inject", !.again = b] \in Calls
        BY <1>3 DEF Calls
      <4>2. (injected[c.msg] > 0) \in BOOLEAN
        OBVIOUS
      <4>3. QED BY <4>1, <4>2
    <3>4. PICK n \in 1..Len(mail[c.from]) : mail[c.from][n].msg = c.msg /\ mail[c.from][n].name = c.name
      BY <1>3 DEF CallOK
    <3>5. injected[c.msg] > 0 => run[c.to] > 0
      <4>1. c.from \in Devices /\ c.to = Home[c.name]
        BY <1>3 DEF CallOK, Calls
      <4>2. QED BY <2>2, <3>4, <4>1 DEF BridgeInv, PastOK, Remembered
    <3> HIDE DEF x0
    <3>6. CallOK(x0)
      BY <1>3, <3>2, <3>3, <3>4, <3>5 DEF CallOK
    <3>7. QED BY <1>1, <1>2, <3>1, <3>6, CallsKept DEF BridgeInv
  <2>3. QED BY <2>1, <2>2
<1>5. WorldOK'
  BY <1>1, WorldKept DEF BridgeInv, FaultOrNot
<1>6. SendOK' /\ LoopOK'
  BY <1>1, <1>2, SendKept, LoopUntouched DEF BridgeInv
<1>7. PastOK'
  BY <1>1, <1>2, PastKept DEF BridgeInv, WorldOK
<1>8. QED BY <1>4, <1>5, <1>6, <1>7 DEF BridgeInv

\* The daemon refuses a message whose recipient is not there.
LEMMA RefusedStep ==
  ASSUME BridgeInv, NEW c \in calls, c.to \in Devices, Inject(c), c.name \notin here
  PROVE  BridgeInv'
<1>1. /\ UNCHANGED <<here, mail, shadowVars, cursor, failures, loopVars, run, faults, pulled>>
      /\ UNCHANGED <<injected, forwarded>>
      /\ Registers(c.to, c.by) /\ Answers(c, "error")
  BY DEF Inject
<1>2. CallOK(c) /\ c \in Calls /\ c.by \in Agents
  BY DEF BridgeInv, CallsOK, CallOK, Calls
<1>3. CallsOK'
  <2>1. \A x \in calls' : x \in calls \/ CallOK(x)
    BY <1>1, <1>2, AnsweredCalls DEF CallOK
  <2>2. QED BY <1>1, <2>1, CallsKept DEF BridgeInv
<1>4. WorldOK'
  BY <1>1, <1>2, RegistersWorld DEF BridgeInv, shadowVars
<1>5. SendOK' /\ LoopOK'
  BY <1>1, SendKept, LoopUntouched DEF BridgeInv, sendVars
<1>6. PastOK'
  BY <1>1, PastKept DEF BridgeInv, WorldOK, historyVars
<1>7. QED BY <1>3, <1>4, <1>5, <1>6 DEF BridgeInv

LEMMA AcceptedStep ==
  ASSUME BridgeInv, NEW c \in calls, c.to \in Devices, Inject(c), c.name \in here
  PROVE  BridgeInv'
<1>1. /\ UNCHANGED <<here, mail, shadowVars, cursor, failures, loopVars, run, faults, pulled>>
      /\ injected' = [injected EXCEPT ![c.msg] = @ + 1]
      /\ forwarded' = [forwarded EXCEPT ![c.to] = @ \cup {c.msg}]
      /\ Registers(c.to, c.by) /\ Answers(c, "ok")
  BY DEF Inject
<1>2. /\ CallOK(c) /\ c \in Calls
      /\ c.by \in Agents /\ c.from \in Devices /\ c.msg \in Messages /\ c.to = Home[c.name]
  BY DEF BridgeInv, CallsOK, CallOK, Calls
<1>3. injected \in [Messages -> Nat] /\ forwarded \in [Devices -> SUBSET Messages]
  BY DEF BridgeInv, PastOK, HistoryOK, SendOK
<1>4. /\ injected' \in [Messages -> Nat] /\ injected'[c.msg] > 0
      /\ \A m \in Messages : injected[m] > 0 => injected'[m] > 0
      /\ \A m \in Messages : m # c.msg => injected'[m] = injected[m]
  BY <1>1, <1>2, <1>3
<1>5. /\ forwarded' \in [Devices -> SUBSET Messages] /\ c.msg \in forwarded'[c.to]
      /\ \A d \in Devices : forwarded[d] \subseteq forwarded'[d]
      /\ \A d \in Devices : forwarded'[d] \subseteq forwarded[d] \cup {c.msg}
  BY <1>1, <1>2, <1>3
<1>6. PICK n \in 1..Len(mail[c.from]) : mail[c.from][n].msg = c.msg /\ mail[c.from][n].name = c.name
  BY <1>2 DEF CallOK
<1>7. CallsOK'
  <2>1. SUFFICES ASSUME NEW x \in calls' PROVE CallOK(x)'
    BY DEF CallsOK
  <2>2. CASE x \in calls
    BY <1>1, <1>4, <2>2, CallStays DEF BridgeInv, CallsOK
  <2>3. CASE x \notin calls
    <3>1. /\ x \in Calls /\ x.stage = "ok"
          /\ x.from = c.from /\ x.to = c.to /\ x.msg = c.msg /\ x.name = c.name
          /\ x.again = c.again
      BY <1>1, <1>2, <2>3, AnsweredCalls
    <3>2. QED BY <1>1, <1>2, <1>4, <3>1 DEF CallOK
  <2>4. QED BY <2>2, <2>3
<1>8. WorldOK'
  BY <1>1, <1>2, RegistersWorld DEF BridgeInv, shadowVars
<1>9. SendOK' /\ LoopOK'
  <2>1. SendOK'
    BY <1>1, <1>5 DEF BridgeInv, SendOK
  <2>2. QED BY <1>1, <2>1, LoopUntouched DEF BridgeInv
<1>10. PastOK'
  <2>1. Written' = Written
    BY <1>1, MailKept DEF BridgeInv, WorldOK
  <2>2. c.msg <= Written
    BY <1>2, <1>6 DEF BridgeInv, WorldOK, MailOK
  <2>3. HistoryOK'
    BY <1>1, <1>4, <2>1, <2>2 DEF BridgeInv, PastOK, HistoryOK
  <2>4. ForwardedArrived'
    <3>1. \A d \in Devices : forwarded[d] \subseteq Messages
      BY <1>3
    <3>2. QED BY <1>1, <1>4, <1>5, <3>1 DEF BridgeInv, PastOK, ForwardedArrived
  <2>5. Remembered'
    <3>1. SUFFICES ASSUME NEW d \in Devices, NEW k \in 1..Len(mail[d]),
                          injected'[mail[d][k].msg] > 0
                   PROVE  \/ mail[d][k].msg \in forwarded'[Home[mail[d][k].name]]
                          \/ run[Home[mail[d][k].name]] > 0
      BY <1>1 DEF Remembered
    <3>2. mail[d][k] \in Letters
      BY DEF BridgeInv, WorldOK, MailOK
    <3>3. mail[d][k].msg \in Messages /\ Home[mail[d][k].name] \in Devices
      BY <3>2, HomeAssumption DEF Letters, HomeAssumption
    <3>4. CASE mail[d][k].msg = c.msg
      <4>1. mail[d][k].name = c.name
        BY <1>2, <1>6, <3>4 DEF BridgeInv, WorldOK, OneNamePerMessage
      <4>2. QED BY <1>2, <1>5, <3>4, <4>1
    <3>5. CASE mail[d][k].msg # c.msg
      <4>1. injected[mail[d][k].msg] > 0
        BY <1>4, <3>1, <3>3, <3>5
      <4>2. QED BY <1>5, <3>3, <4>1 DEF BridgeInv, PastOK, Remembered
    <3>6. QED BY <3>4, <3>5
  <2>6. QED BY <2>3, <2>4, <2>5 DEF PastOK
<1>11. QED BY <1>7, <1>8, <1>9, <1>10 DEF BridgeInv

-----------------------------------------------------------------------------
(* The push *)

\* A step that moves nothing but the loop and the cursor of one device.
LEMMA LoopStep ==
  ASSUME BridgeInv, UNCHANGED <<daemonVars, shadowVars, forwarded, failures, calls, run, faults, historyVars>>,
         SendOK', LoopOK'
  PROVE  BridgeInv'
<1>1. WorldOK'
  BY WorldKept DEF BridgeInv, FaultOrNot
<1>2. UNCHANGED <<mail, injected>>
  BY DEF daemonVars, historyVars
<1>3. CallsOK'
  BY <1>2, CallsKept DEF BridgeInv
<1>4. PastOK'
  BY <1>2, PastKept DEF BridgeInv, WorldOK
<1>5. QED BY <1>1, <1>3, <1>4 DEF BridgeInv

\* What a query finds: rows of the mailbox, for the agent of that shadow.
LEMMA WaitingIsInMail ==
  ASSUME NEW d \in Devices, NEW id
  PROVE  /\ Waiting(d, id) \subseteq 1..Len(mail[d])
         /\ \A n \in Waiting(d, id) : mail[d][n].to = id
BY DEF Waiting

LEMMA ReadStep ==
  ASSUME BridgeInv, NEW d \in Devices, NEW a \in Agents, Read(d, a)
  PROVE  BridgeInv'
<1>1. /\ UNCHANGED <<daemonVars, shadowVars, sendVars, loop, answer, calls, run, faults, historyVars>>
      /\ loop[d] = "forward" /\ todo' = [todo EXCEPT ![d] = @ \ {a}]
  BY DEF Read
<1>2. UNCHANGED <<mail, cursor, forwarded, failures, loop, answer>>
  BY <1>1 DEF daemonVars, sendVars
<1>3. LoopOK /\ loop'[d] = "forward"
  BY <1>1 DEF BridgeInv
<1> DEFINE found == Waiting(d, shadow[d][a])
<1>4. /\ DOMAIN batch' = Devices
      /\ \A e \in Devices \ {d} : batch'[e] = batch[e]
      /\ \/ batch'[d] = batch[d]
         \/ shadow[d][a] # 0 /\ batch'[d] = [id |-> shadow[d][a], read |-> found, left |-> found]
  BY <1>3 DEF Read, LoopOK
<1>5. BatchOK(d)'
  <2>1. CASE batch'[d] = batch[d]
    BY <1>2, <1>3, <2>1 DEF LoopOK, BatchOK
  <2>2. CASE shadow[d][a] # 0 /\ batch'[d] = [id |-> shadow[d][a], read |-> found, left |-> found]
    <3>1. shadow[d][a] \in Ids
      BY <2>2, IdInRange DEF BridgeInv, WorldOK
    <3>2. found \subseteq 1..Len(mail[d])
      BY WaitingIsInMail
    <3>3. found \in SUBSET Nat
      BY <3>2
    <3> HIDE DEF found
    <3>4. shadow[d][a] \in Nat
      BY <3>1, IdsAreNumbers
    <3>5. /\ batch'[d] \in [id : Nat, read : SUBSET Nat, left : SUBSET Nat]
          /\ batch'[d].read = found /\ batch'[d].left = found /\ batch'[d].id = shadow[d][a]
      BY <2>2, <3>3, <3>4
    <3>6. QED BY <1>2, <1>3, <3>1, <3>2, <3>5 DEF BatchOK
  <2>3. QED BY <1>4, <2>1, <2>2
<1>6. TodoOK(d)' /\ AnswerOK(d)'
  BY <1>2, <1>3 DEF LoopOK, TodoOK, AnswerOK
<1>7. DOMAIN todo' = Devices /\ \A e \in Devices \ {d} : todo'[e] = todo[e]
  BY <1>1, <1>3 DEF LoopOK
<1>8. LoopOK'
  BY <1>2, <1>3, <1>4, <1>5, <1>6, <1>7, LoopKept DEF LoopOK
<1>9. SendOK'
  BY <1>1, <1>2, SendKept DEF BridgeInv
<1>10. QED BY <1>1, <1>2, <1>8, <1>9, LoopStep

LEMMA SkipStep ==
  ASSUME BridgeInv, NEW d \in Devices, Skip(d)
  PROVE  BridgeInv'
<1>1. /\ UNCHANGED <<daemonVars, shadowVars, sendVars, loop, todo, answer, calls, run, faults, historyVars>>
      /\ loop[d] = "forward" /\ batch' = [batch EXCEPT ![d].left = @ \ {Least(@)}]
  BY DEF Skip
<1>2. UNCHANGED <<mail, cursor, forwarded, failures, loop, todo, answer>>
  BY <1>1 DEF daemonVars, sendVars
<1>3. LoopOK /\ loop'[d] = "forward" /\ BatchOK(d)
  BY <1>1 DEF BridgeInv, LoopOK
<1>4. /\ DOMAIN batch' = Devices
      /\ \A e \in Devices \ {d} : batch'[e] = batch[e]
      /\ batch'[d] = [batch[d] EXCEPT !.left = @ \ {Least(@)}]
  BY <1>1, <1>3 DEF LoopOK
<1>5. BatchOK(d)'
  BY <1>2, <1>3, <1>4 DEF BatchOK
<1>6. TodoOK(d)' /\ AnswerOK(d)'
  BY <1>2, <1>3 DEF LoopOK, TodoOK, AnswerOK
<1>7. LoopOK'
  BY <1>2, <1>3, <1>4, <1>5, <1>6, LoopKept DEF LoopOK
<1>8. SendOK'
  BY <1>1, <1>2, SendKept DEF BridgeInv
<1>9. QED BY <1>1, <1>2, <1>7, <1>8, LoopStep

\* A batch that is given up, or through, leaves the loop fit for the next one.
LEMMA EndsLoop ==
  ASSUME LoopOK, UNCHANGED <<mail, todo, answer>>, NEW d \in Devices, Ends(d),
         \A e \in Devices \ {d} : failures'[e] = failures[e]
  PROVE  LoopOK'
<1>1. /\ loop' = [loop EXCEPT ![d] = "forward"] /\ batch' = [batch EXCEPT ![d] = NoBatch]
      /\ loop'[d] = "forward" /\ batch'[d] = NoBatch
  BY DEF Ends, LoopOK
<1>2. BatchOK(d)'
  BY <1>1 DEF BatchOK, NoBatch
<1>3. TodoOK(d)' /\ AnswerOK(d)'
  BY <1>1 DEF LoopOK, TodoOK, AnswerOK
<1>4. QED BY <1>1, <1>2, <1>3, LoopKept DEF LoopOK, Turns

LEMMA AdvancesSend ==
  ASSUME BridgeInv, NEW d \in Devices, NEW done, Advances(d, done), done \subseteq batch[d].read,
         UNCHANGED <<mail, forwarded>>, failures' \in [Devices -> [Devices -> 0..3]]
  PROVE  SendOK'
<1>1. /\ cursor' \in [Devices -> [Ids -> Nat]]
      /\ \A e \in Devices, i \in Ids : cursor'[e][i] <= Len(mail[e])
  BY AdvancesInRange DEF BridgeInv, WorldOK, LoopOK
<1>2. QED BY <1>1 DEF BridgeInv, SendOK

LEMMA EndedStep ==
  ASSUME BridgeInv, NEW d \in Devices, Forwarded(d) \/ HoldBack(d)
  PROVE  BridgeInv'
<1>1. /\ UNCHANGED <<daemonVars, shadowVars, forwarded, failures, todo, answer, calls, run, faults, historyVars>>
      /\ Ends(d) /\ (Advances(d, batch[d].read) \/ Advances(d, DoneOf(d)))
  BY DEF Forwarded, HoldBack
<1>2. UNCHANGED mail
  BY <1>1 DEF daemonVars
<1>3. DoneOf(d) \subseteq batch[d].read
  BY DEF DoneOf
<1>4. failures' \in [Devices -> [Devices -> 0..3]]
  BY <1>1 DEF BridgeInv, SendOK
<1>5. SendOK'
  BY <1>1, <1>2, <1>3, <1>4, AdvancesSend
<1>6. LoopOK'
  BY <1>1, <1>2, EndsLoop DEF BridgeInv
<1>7. QED BY <1>1, <1>5, <1>6, LoopStep

\* A request for a row of the mailbox, to the device where its recipient lives.
LEMMA CallOfRow ==
  ASSUME BridgeInv, NEW d \in Devices, NEW p \in Devices, NEW n \in 1..Len(mail[d]),
         NEW how \in {"push", "pull"}, p = Home[mail[d][n].name]
  PROVE  CallOK(CallOf(d, p, mail[d][n], how))
<1> DEFINE c == CallOf(d, p, mail[d][n], how)
<1>1. /\ c.from = d /\ c.to = p /\ c.msg = mail[d][n].msg /\ c.name = mail[d][n].name
      /\ c.stage = "sent" /\ c.again = FALSE
  BY DEF CallOf
<1>2. mail[d][n] \in Letters
  BY DEF BridgeInv, WorldOK, MailOK
<1>3. run[d] \in 0..MaxFaults
  <2>1. /\ run[d] \in Nat /\ run[d] <= faults /\ faults \in Nat /\ faults <= MaxFaults
    BY DEF BridgeInv, WorldOK, CountersOK
  <2>2. QED BY <2>1, IdsAreNumbers
<1>4. failures[d][p] \in 0..3
  BY DEF BridgeInv, SendOK
<1>5. c \in Calls
  BY <1>2, <1>3, <1>4 DEF CallOf, Calls, Letters
<1> HIDE DEF c
<1>6. CallOK(c)
  BY <1>1, <1>5 DEF CallOK
<1>7. QED BY <1>6 DEF c

LEMMA PostStep ==
  ASSUME BridgeInv, NEW d \in Devices, Post(d)
  PROVE  BridgeInv'
<1>1. /\ UNCHANGED <<daemonVars, shadowVars, sendVars, todo, batch, answer, run, faults, historyVars>>
      /\ loop[d] = "forward" /\ batch[d].left # {} /\ loop' = [loop EXCEPT ![d] = "wait"]
      /\ Healthy(d, PeerOf(Current(d).name))
      /\ calls' = calls \cup {CallOf(d, PeerOf(Current(d).name), Current(d), "push")}
  BY DEF Post
<1>2. UNCHANGED <<mail, cursor, forwarded, failures, injected>>
  BY <1>1 DEF daemonVars, sendVars, historyVars
<1>3. LoopOK /\ loop'[d] = "wait" /\ BatchOK(d)
  BY <1>1 DEF BridgeInv, LoopOK
<1>4. Least(batch[d].left) \in 1..Len(mail[d]) /\ Home[Current(d).name] \in Devices
  BY <1>1, <1>3, CurrentIsLetter DEF BridgeInv, WorldOK
<1>5. CallsOK'
  <2>1. CallOK(CallOf(d, PeerOf(Current(d).name), Current(d), "push"))
    BY <1>4, CallOfRow DEF Current, PeerOf
  <2>2. QED BY <1>1, <1>2, <2>1, CallsKept DEF BridgeInv
<1>6. LoopOK'
  <2>1. BatchOK(d)'
    BY <1>1, <1>2, <1>3 DEF BatchOK, Healthy, PeerOf, Current
  <2>2. TodoOK(d)' /\ AnswerOK(d)'
    BY <1>1, <1>2, <1>3 DEF LoopOK, TodoOK, AnswerOK
  <2>3. QED BY <1>1, <1>2, <1>3, <2>1, <2>2, LoopKept DEF LoopOK, Turns
<1>7. WorldOK'
  BY <1>1, WorldKept DEF BridgeInv, FaultOrNot
<1>8. SendOK'
  BY <1>1, <1>2, SendKept DEF BridgeInv
<1>9. PastOK'
  BY <1>1, <1>2, PastKept DEF BridgeInv, WorldOK
<1>10. QED BY <1>5, <1>6, <1>7, <1>8, <1>9 DEF BridgeInv

LEMMA SucceedsStep ==
  ASSUME BridgeInv, NEW d \in Devices, NEW c \in calls, Succeeds(d, c)
  PROVE  BridgeInv'
<1>1. /\ UNCHANGED <<daemonVars, shadowVars, cursor, todo, answer, run, faults, historyVars>>
      /\ forwarded' = [forwarded EXCEPT ![d] = @ \cup {c.msg}]
      /\ failures' = [failures EXCEPT ![d][c.to] = 0]
      /\ calls' = calls \ {c}
      /\ loop' = [loop EXCEPT ![d] = "forward"]
      /\ batch' = [batch EXCEPT ![d].left = @ \ {Least(@)}]
      /\ c.stage = "ok"
  BY DEF Succeeds
<1>2. UNCHANGED <<mail, injected, pulled>>
  BY <1>1 DEF daemonVars, historyVars
<1>3. c.msg \in Messages /\ c.to \in Devices /\ injected[c.msg] > 0
  BY <1>1 DEF BridgeInv, CallsOK, CallOK, Calls
<1>4. /\ LoopOK /\ BatchOK(d) /\ SendOK
      /\ cursor \in [Devices -> [Ids -> Nat]]
      /\ forwarded \in [Devices -> SUBSET Messages] /\ failures \in [Devices -> [Devices -> 0..3]]
  BY DEF BridgeInv, LoopOK, SendOK
<1>5. /\ forwarded' \in [Devices -> SUBSET Messages]
      /\ \A e \in Devices : forwarded[e] \subseteq forwarded'[e]
      /\ \A e \in Devices : forwarded'[e] \subseteq forwarded[e] \cup {c.msg}
  BY <1>1, <1>3, <1>4
<1>6. /\ failures' \in [Devices -> [Devices -> 0..3]]
      /\ \A e \in Devices \ {d} : failures'[e] = failures[e]
  BY <1>1, <1>3, <1>4
<1>7. SendOK'
  BY <1>1, <1>2, <1>5, <1>6 DEF SendOK, BridgeInv
<1>8. LoopOK'
  <2>1. /\ loop'[d] = "forward" /\ DOMAIN batch' = Devices
        /\ \A e \in Devices \ {d} : batch'[e] = batch[e] /\ loop'[e] = loop[e]
        /\ batch'[d] = [batch[d] EXCEPT !.left = @ \ {Least(@)}]
    BY <1>1, <1>4 DEF LoopOK
  <2>2. BatchOK(d)'
    BY <1>2, <1>4, <2>1 DEF BatchOK
  <2>3. TodoOK(d)' /\ AnswerOK(d)'
    BY <1>1, <1>2, <1>4, <2>1 DEF LoopOK, TodoOK, AnswerOK
  <2>4. QED BY <1>1, <1>2, <1>4, <1>6, <2>1, <2>2, <2>3, LoopKept DEF LoopOK, Turns
<1>9. WorldOK'
  BY <1>1, WorldKept DEF BridgeInv, FaultOrNot
<1>10. CallsOK'
  BY <1>1, <1>2, CallsKept DEF BridgeInv
<1>11. PastOK'
  <2>1. HistoryOK'
    BY <1>1, <1>2, MailKept DEF BridgeInv, WorldOK, PastOK, HistoryOK
  <2>2. ForwardedArrived'
    BY <1>2, <1>3, <1>5 DEF BridgeInv, PastOK, ForwardedArrived
  <2>3. Remembered'
    <3>1. SUFFICES ASSUME NEW e \in Devices, NEW k \in 1..Len(mail[e]),
                          injected[mail[e][k].msg] > 0
                   PROVE  \/ mail[e][k].msg \in forwarded'[Home[mail[e][k].name]]
                          \/ run[Home[mail[e][k].name]] > 0
      BY <1>1, <1>2 DEF Remembered
    <3>2. Home[mail[e][k].name] \in Devices
      BY LetterAt DEF BridgeInv, WorldOK
    <3>3. QED BY <1>5, <3>1, <3>2 DEF BridgeInv, PastOK, Remembered
  <2>4. QED BY <2>1, <2>2, <2>3 DEF PastOK
<1>12. QED BY <1>7, <1>8, <1>9, <1>10, <1>11 DEF BridgeInv

LEMMA FailsStep ==
  ASSUME BridgeInv, NEW d \in Devices, Fails(d)
  PROVE  BridgeInv'
<1>1. /\ UNCHANGED <<daemonVars, shadowVars, forwarded, todo, answer, run, historyVars>>
      /\ loop[d] = "wait" /\ FaultOrNot
      /\ failures' = [failures EXCEPT ![d][PeerOf(Current(d).name)] = @ + 1]
      /\ calls' \subseteq calls
      /\ Advances(d, DoneOf(d)) /\ Ends(d)
  BY DEF Fails, FaultOrNot
<1>2. UNCHANGED <<mail, injected>>
  BY <1>1 DEF daemonVars, historyVars
<1>3. LoopOK /\ BatchOK(d) /\ failures \in [Devices -> [Devices -> 0..3]]
  BY DEF BridgeInv, LoopOK, SendOK
<1>4. batch[d].left # {} /\ Healthy(d, PeerOf(Current(d).name))
  BY <1>1, <1>3 DEF BatchOK
<1>5. PeerOf(Current(d).name) \in Devices
  BY <1>3, <1>4, CurrentIsLetter DEF BridgeInv, WorldOK, PeerOf
<1>6. failures' \in [Devices -> [Devices -> 0..3]] /\ \A e \in Devices \ {d} : failures'[e] = failures[e]
  BY <1>1, <1>3, <1>4, <1>5 DEF Healthy
<1>7. SendOK'
  <2>1. DoneOf(d) \subseteq batch[d].read
    BY DEF DoneOf
  <2>2. QED BY <1>1, <1>2, <1>6, <2>1, AdvancesSend
<1>8. LoopOK'
  BY <1>1, <1>2, <1>3, <1>6, EndsLoop
<1>9. WorldOK'
  BY <1>1, WorldKept DEF BridgeInv
<1>10. CallsOK'
  BY <1>1, <1>2, CallsKept DEF BridgeInv
<1>11. PastOK'
  BY <1>1, <1>2, PastKept DEF BridgeInv, WorldOK
<1>12. QED BY <1>7, <1>8, <1>9, <1>10, <1>11 DEF BridgeInv

-----------------------------------------------------------------------------
(* The pull *)

LEMMA CollectStep ==
  ASSUME BridgeInv, NEW d \in Devices, Collect(d)
  PROVE  BridgeInv'
<1> DEFINE p == answer[d].from
           asked == {a \in ShadowsOf(p, d) : Waiting(p, shadow[p][a]) # {}}
           found == UNION {Waiting(p, shadow[p][a]) : a \in asked}
           new == {n \in found : mail[p][n].msg \notin forwarded[p]}
           msgs == {mail[p][n].msg : n \in found}
<1>1. /\ UNCHANGED <<daemonVars, shadowVars, failures, todo, batch, calls, run, injected>>
      /\ loop[d] = "ask"
      /\ forwarded' = [forwarded EXCEPT ![p] = @ \cup msgs]
      /\ cursor' = [cursor EXCEPT ![p] =
           [i \in DOMAIN @ |-> IF \E a \in asked : shadow[p][a] = i
                               THEN Greatest(Waiting(p, i)) ELSE @[i]]]
      /\ pulled' = pulled \cup {mail[p][n].msg : n \in new}
      /\ FaultOrNot
  BY DEF Collect, FaultOrNot
<1>2. \/ answer' = [answer EXCEPT ![d].left = new] /\ loop' = [loop EXCEPT ![d] = "deliver"]
      \/ answer' = answer /\ loop' = [loop EXCEPT ![d] = "pull"]
  BY DEF Collect
<1>3. UNCHANGED mail
  BY <1>1 DEF daemonVars
<1>4. /\ LoopOK /\ AnswerOK(d) /\ p \in Devices /\ SendOK
      /\ cursor \in [Devices -> [Ids -> Nat]] /\ forwarded \in [Devices -> SUBSET Messages]
  BY DEF BridgeInv, LoopOK, AnswerOK, SendOK
<1>5. found \subseteq 1..Len(mail[p])
  BY WaitingIsInMail, <1>4
<1>6. msgs \subseteq Messages
  <2>1. \A n \in found : mail[p][n].msg \in Messages
    BY <1>4, <1>5, LetterAt DEF BridgeInv, WorldOK
  <2>2. QED BY <2>1
<1>7. \A n \in found : Home[mail[p][n].name] = d
  <2>1. SUFFICES ASSUME NEW a \in asked, NEW n \in Waiting(p, shadow[p][a])
                 PROVE  Home[mail[p][n].name] = d
    OBVIOUS
  <2>2. a \in Agents /\ Home[a] = d /\ shadow[p][a] # 0 /\ shadow[p][a] \in Nat
    BY <1>4 DEF ShadowsOf, Located, BridgeInv, WorldOK, IdsOK
  <2>3. n \in 1..Len(mail[p]) /\ mail[p][n].to = shadow[p][a]
    BY <1>4, WaitingIsInMail
  <2>4. mail[p][n].name \in Agents
    BY <1>4, <2>3, LetterAt DEF BridgeInv, WorldOK
  <2>5. IsOf(p, shadow[p][a], a) /\ IsOf(p, shadow[p][a], mail[p][n].name)
    BY <2>3 DEF IsOf
  <2>6. mail[p][n].name = a
    BY <1>4, <2>2, <2>4, <2>5 DEF BridgeInv, WorldOK, OneNamePerId
  <2>7. QED BY <2>2, <2>6
<1>8. \A i \in Ids : (\E a \in asked : shadow[p][a] = i) =>
        Greatest(Waiting(p, i)) \in Nat /\ Greatest(Waiting(p, i)) <= Len(mail[p])
  <2>1. SUFFICES ASSUME NEW i \in Ids, NEW a \in asked, shadow[p][a] = i
                 PROVE  Greatest(Waiting(p, i)) \in Nat /\ Greatest(Waiting(p, i)) <= Len(mail[p])
    OBVIOUS
  <2>2. Len(mail[p]) \in Nat
    BY <1>4 DEF BridgeInv, WorldOK, MailOK
  <2>3. Waiting(p, i) \in SUBSET (0..Len(mail[p])) /\ Waiting(p, i) \subseteq 1..Len(mail[p])
    BY <1>4, WaitingIsInMail, 1..Len(mail[p]) \subseteq 0..Len(mail[p])
  <2>4. Waiting(p, i) # {}
    BY <2>1
  <2>5. Greatest(Waiting(p, i)) \in Waiting(p, i)
    BY <2>2, <2>3, <2>4, GreatestIsMember
  <2>6. QED BY <2>2, <2>3, <2>5
<1>9. /\ forwarded' \in [Devices -> SUBSET Messages]
      /\ \A e \in Devices : forwarded[e] \subseteq forwarded'[e]
      /\ \A e \in Devices \ {p} : forwarded'[e] = forwarded[e]
      /\ forwarded'[p] = forwarded[p] \cup msgs
  <2> HIDE DEF msgs, p
  <2>1. QED BY <1>1, <1>4, <1>6
<1>10. msgs \subseteq forwarded[p] \cup pulled' /\ pulled \subseteq pulled' /\ pulled' \subseteq pulled \cup msgs
  BY <1>1
<1>11. new \subseteq Nat /\ new \subseteq 1..Len(mail[p]) /\ \A n \in new : Home[mail[p][n].name] = d
  <2>1. new \subseteq found
    OBVIOUS
  <2> HIDE DEF new, found
  <2>2. new \subseteq 1..Len(mail[p])
    BY <1>5, <2>1
  <2>3. new \subseteq Nat
    BY <2>2
  <2>4. QED BY <1>7, <2>1, <2>2, <2>3
<1>12. SendOK'
  <2>1. cursor' \in [Devices -> [Ids -> Nat]]
    BY <1>1, <1>4, <1>8
  <2>2. \A e \in Devices, i \in Ids : cursor'[e][i] <= Len(mail[e])
    BY <1>1, <1>4, <1>8 DEF SendOK
  <2> HIDE DEF p, msgs, asked
  <2>3. failures' \in [Devices -> [Devices -> 0..3]]
    BY <1>1 DEF BridgeInv, SendOK
  <2>4. QED BY <1>3, <1>9, <2>1, <2>2, <2>3 DEF SendOK
<1> HIDE DEF asked, found, new, msgs
<1>13. LoopOK'
  <2>1. /\ loop' \in [Devices -> Turns] /\ DOMAIN answer' = Devices
        /\ \A e \in Devices \ {d} : loop'[e] = loop[e] /\ answer'[e] = answer[e]
        /\ loop'[d] \in {"deliver", "pull"}
        /\ answer'[d] \in {answer[d], [answer[d] EXCEPT !.left = new]}
    BY <1>2, <1>4 DEF LoopOK, Turns
  <2>2. AnswerOK(d)'
    <3>1. CASE answer'[d] = answer[d]
      BY <1>3, <1>4, <3>1 DEF AnswerOK
    <3>2. CASE answer'[d] = [answer[d] EXCEPT !.left = new]
      <4>1. answer'[d] \in [from : Devices, left : SUBSET Nat]
        BY <1>4, <1>11, <3>2 DEF AnswerOK
      <4>2. answer'[d].from = answer[d].from /\ answer'[d].left = new
        BY <1>4, <3>2 DEF AnswerOK
      <4>3. QED BY <1>3, <1>11, <4>1, <4>2 DEF AnswerOK
    <3>3. QED BY <2>1, <3>1, <3>2
  <2>3. TodoOK(d)' /\ BatchOK(d)'
    BY <1>1, <1>3, <1>4, <2>1 DEF LoopOK, TodoOK, BatchOK, Peers
  <2>4. QED BY <1>1, <1>3, <1>4, <2>1, <2>2, <2>3, LoopKept DEF LoopOK
<1>14. WorldOK'
  BY <1>1, WorldKept DEF BridgeInv
<1>15. CallsOK'
  BY <1>1, <1>3, CallsKept DEF BridgeInv
<1>16. PastOK'
  <2>1. HistoryOK'
    BY <1>1, <1>3, <1>6, <1>10, MailKept DEF BridgeInv, WorldOK, PastOK, HistoryOK
  <2>2. ForwardedArrived'
    <3>1. SUFFICES ASSUME NEW e \in Devices, NEW m \in forwarded'[e] PROVE injected[m] > 0 \/ m \in pulled'
      BY <1>1 DEF ForwardedArrived
    <3>2. m \in forwarded[e] \/ m \in pulled'
      BY <1>4, <1>9, <1>10
    <3>3. QED BY <1>10, <3>2 DEF BridgeInv, PastOK, ForwardedArrived
  <2>3. Remembered'
    <3>1. SUFFICES ASSUME NEW e \in Devices, NEW k \in 1..Len(mail[e]),
                          injected[mail[e][k].msg] > 0
                   PROVE  \/ mail[e][k].msg \in forwarded'[Home[mail[e][k].name]]
                          \/ run[Home[mail[e][k].name]] > 0
      BY <1>1, <1>3 DEF Remembered
    <3>2. Home[mail[e][k].name] \in Devices
      BY LetterAt DEF BridgeInv, WorldOK
    <3>3. QED BY <1>9, <3>1, <3>2 DEF BridgeInv, PastOK, Remembered
  <2>4. QED BY <2>1, <2>2, <2>3 DEF PastOK
<1>17. QED BY <1>12, <1>13, <1>14, <1>15, <1>16 DEF BridgeInv

LEMMA DeliverNextStep ==
  ASSUME BridgeInv, NEW d \in Devices, DeliverNext(d)
  PROVE  BridgeInv'
<1> DEFINE p == answer[d].from
           n == Least(answer[d].left)
<1>1. /\ UNCHANGED <<daemonVars, shadowVars, sendVars, loop, todo, batch, run, faults, historyVars>>
      /\ answer[d].left # {} /\ calls' = calls \cup {CallOf(p, d, mail[p][n], "pull")}
      /\ answer' = [answer EXCEPT ![d].left = @ \ {n}]
  BY DEF DeliverNext
<1>2. UNCHANGED <<mail, failures, injected, forwarded, cursor>>
  BY <1>1 DEF daemonVars, sendVars, historyVars
<1>3. LoopOK /\ AnswerOK(d) /\ p \in Devices
  BY DEF BridgeInv, LoopOK, AnswerOK
<1>4. n \in answer[d].left
  BY <1>1, <1>3, LeastIsMember DEF AnswerOK
<1>5. n \in 1..Len(mail[p]) /\ Home[mail[p][n].name] = d
  BY <1>3, <1>4 DEF AnswerOK
<1>6. CallsOK'
  <2>1. CallOK(CallOf(p, d, mail[p][n], "pull"))
    BY <1>3, <1>5, CallOfRow
  <2>2. QED BY <1>1, <1>2, <2>1, CallsKept DEF BridgeInv
<1>7. LoopOK'
  <2>1. /\ DOMAIN answer' = Devices /\ \A e \in Devices \ {d} : answer'[e] = answer[e]
        /\ answer'[d] = [answer[d] EXCEPT !.left = @ \ {n}]
    BY <1>1, <1>3 DEF LoopOK
  <2> HIDE DEF n
  <2>2. AnswerOK(d)'
    BY <1>2, <1>3, <2>1 DEF AnswerOK
  <2>3. TodoOK(d)' /\ BatchOK(d)'
    BY <1>1, <1>2, <1>3 DEF LoopOK, TodoOK, BatchOK, Healthy, PeerOf, Current
  <2>4. QED BY <1>1, <1>2, <1>3, <2>1, <2>2, <2>3, LoopKept DEF LoopOK
<1>8. WorldOK'
  BY <1>1, WorldKept DEF BridgeInv, FaultOrNot
<1>9. SendOK'
  BY <1>1, <1>2, SendKept DEF BridgeInv
<1>10. PastOK'
  BY <1>1, <1>2, PastKept DEF BridgeInv, WorldOK
<1>11. QED BY <1>6, <1>7, <1>8, <1>9, <1>10 DEF BridgeInv

LEMMA PullEndsStep ==
  ASSUME BridgeInv, NEW d \in Devices, PullEnds(d)
  PROVE  BridgeInv'
<1>1. /\ UNCHANGED <<daemonVars, shadowVars, sendVars, todo, batch, answer, calls, run, faults, historyVars>>
      /\ loop[d] \in {"ask", "deliver"} /\ loop' = [loop EXCEPT ![d] = "pull"]
  BY DEF PullEnds
<1>2. UNCHANGED <<mail, forwarded, failures>>
  BY <1>1 DEF daemonVars, sendVars
<1>3. LoopOK'
  <2>1. LoopOK /\ loop'[d] = "pull"
    BY <1>1 DEF BridgeInv, LoopOK
  <2>2. TodoOK(d)' /\ BatchOK(d)' /\ AnswerOK(d)'
    BY <1>1, <1>2, <2>1 DEF LoopOK, TodoOK, BatchOK, AnswerOK, Peers
  <2>3. QED BY <1>1, <1>2, <2>1, <2>2, LoopKept DEF LoopOK, Turns
<1>4. SendOK'
  BY <1>1, <1>2, SendKept DEF BridgeInv
<1>5. QED BY <1>1, <1>2, <1>3, <1>4, LoopStep

LEMMA TurnStep ==
  ASSUME BridgeInv, NEW d \in Devices, TurnToForward(d) \/ TurnToPull(d) \/ TurnToGossip(d)
  PROVE  BridgeInv'
<1>1. PICK from \in {"gossip", "forward", "pull"}, to \in {"forward", "pull", "gossip"}, all \in SUBSET (Devices \cup Agents) :
        TurnTo(d, from, to, all) /\ (to # "forward" => all = Peers(d))
  BY DEF TurnToForward, TurnToPull, TurnToGossip, Peers, Shadows
<1>2. /\ UNCHANGED <<daemonVars, shadowVars, sendVars, batch, answer, calls, run, faults, historyVars>>
      /\ loop' = [loop EXCEPT ![d] = to] /\ todo' = [todo EXCEPT ![d] = all]
  BY <1>1 DEF TurnTo
<1>3. UNCHANGED <<mail, forwarded, failures>>
  BY <1>2 DEF daemonVars, sendVars
<1>4. LoopOK'
  <2>1. LoopOK /\ loop'[d] = to /\ todo'[d] = all
    BY <1>2 DEF BridgeInv, LoopOK
  <2>2. TodoOK(d)'
    BY <1>1, <2>1 DEF TodoOK, Peers
  <2>3. BatchOK(d)' /\ AnswerOK(d)'
    BY <1>1, <1>2, <1>3, <2>1 DEF LoopOK, BatchOK, AnswerOK
  <2>4. QED BY <1>1, <1>2, <1>3, <2>1, <2>2, <2>3, LoopKept DEF LoopOK, Turns
<1>5. SendOK'
  BY <1>2, <1>3, SendKept DEF BridgeInv
<1>6. QED BY <1>2, <1>3, <1>4, <1>5, LoopStep

-----------------------------------------------------------------------------
(* Agents, daemons, restarts *)

LEMMA ComeGoStep ==
  ASSUME BridgeInv, NEW a \in Agents, Come(a) \/ Go(a)
  PROVE  BridgeInv'
<1>1. /\ UNCHANGED <<rows, issued, mail, shadowVars, sendVars, loopVars, calls, run, historyVars>>
      /\ FaultOrNot /\ here' \subseteq here \cup {a}
  BY DEF Come, Go, FaultOrNot
<1>2. UNCHANGED <<shadow, roster, registering, forwarded, failures, injected>>
  BY <1>1 DEF shadowVars, sendVars, historyVars
<1>3. WorldOK'
  <2>1. RosterOK'
    BY <1>1, <1>2 DEF BridgeInv, WorldOK, RosterOK
  <2>2. QED
    BY <1>1, <1>2, <2>1, CountersKept, IdsKept, MailKept, NamesKept DEF BridgeInv, WorldOK
<1>4. SendOK' /\ LoopOK'
  BY <1>1, <1>2, SendKept, LoopUntouched DEF BridgeInv
<1>5. CallsOK'
  BY <1>1, <1>2, CallsKept DEF BridgeInv
<1>6. PastOK'
  BY <1>1, <1>2, PastKept DEF BridgeInv, WorldOK
<1>7. QED BY <1>3, <1>4, <1>5, <1>6 DEF BridgeInv

\* A reaped row makes room for one more id, and is a fault.
LEMMA ReapStep ==
  ASSUME BridgeInv, NEW d \in Devices, NEW a \in Agents, Reap(d, a)
  PROVE  BridgeInv'
<1>1. /\ UNCHANGED <<here, issued, mail, shadowVars, sendVars, loopVars, calls, run, historyVars>>
      /\ Fault /\ rows[d][a] # 0 /\ rows' = [rows EXCEPT ![d][a] = 0]
  BY DEF Reap
<1>2. UNCHANGED <<shadow, roster, registering, forwarded, failures, injected>>
  BY <1>1 DEF shadowVars, sendVars, historyVars
<1>3. /\ issued \in [Devices -> Nat] /\ rows \in [Devices -> [Agents -> Nat]]
      /\ faults \in Nat /\ faults' = faults + 1
  BY <1>1 DEF BridgeInv, WorldOK, IdsOK, CountersOK, Fault
<1>4. /\ rows' \in [Devices -> [Agents -> Nat]]
      /\ \A e \in Devices, x \in Agents : rows'[e][x] = IF e = d /\ x = a THEN 0 ELSE rows[e][x]
  BY <1>1, <1>3
<1>5. IdsOK'
  <2>1. ASSUME NEW e \in Devices
        PROVE  issued'[e] <= Cardinality({x \in Agents : rows'[e][x] # 0}) + faults'
    <3> DEFINE R == {x \in Agents : rows[e][x] # 0}
               S == {x \in Agents : rows'[e][x] # 0}
    <3>1. issued[e] \in Nat /\ issued[e] <= Cardinality(R) + faults /\ issued'[e] = issued[e]
      BY <1>1, <1>3 DEF BridgeInv, WorldOK, IdsOK
    <3>2. IsFiniteSet(S) /\ Cardinality(S) \in Nat /\ IsFiniteSet(R) /\ Cardinality(R) \in Nat
      BY FiniteAssumption, FS_Subset, FS_CardinalityType DEF FiniteAssumption
    <3>3. CASE e # d
      <4>1. S = R
        BY <1>4, <3>3
      <4> HIDE DEF R, S
      <4>2. issued'[e] <= Cardinality(S) + faults'
        BY <1>3, <3>1, <3>2, <4>1
      <4>3. QED BY <4>2 DEF S
    <3>4. CASE e = d
      <4>1. R = S \cup {a} /\ a \notin S
        BY <1>1, <1>4, <3>4
      <4>2. Cardinality(R) = Cardinality(S) + 1
        BY <3>2, <4>1, FS_AddElement
      <4> HIDE DEF R, S
      <4>3. issued'[e] <= Cardinality(S) + faults'
        BY <1>3, <3>1, <3>2, <4>2
      <4>4. QED BY <4>3 DEF S
    <3>5. QED BY <3>3, <3>4
  <2>2. QED BY <1>1, <1>2, <1>4, <2>1 DEF BridgeInv, WorldOK, IdsOK
<1>6. OneNamePerId'
  <2>1. \A e \in Devices, i \in Nat \ {0}, x \in Agents : IsOf(e, i, x)' => IsOf(e, i, x)
    BY <1>1, <1>2, <1>4 DEF IsOf
  <2>2. QED BY <1>1, <2>1 DEF BridgeInv, WorldOK, OneNamePerId
<1>7. RosterOK'
  BY <1>1, <1>2 DEF BridgeInv, WorldOK, RosterOK
<1>8. WorldOK'
  BY <1>1, <1>5, <1>6, <1>7, CountersKept, MailKept DEF BridgeInv, WorldOK, FaultOrNot
<1>9. SendOK' /\ LoopOK'
  BY <1>1, <1>2, SendKept, LoopUntouched DEF BridgeInv
<1>10. CallsOK'
  BY <1>1, <1>2, CallsKept DEF BridgeInv
<1>11. PastOK'
  BY <1>1, <1>2, PastKept DEF BridgeInv, WorldOK
<1>12. QED BY <1>8, <1>9, <1>10, <1>11 DEF BridgeInv

\* A bridge that is started again has forgotten what it passed on, and counts it.
LEMMA RestartStep ==
  ASSUME BridgeInv, NEW d \in Devices, Restart(d)
  PROVE  BridgeInv'
<1>1. /\ UNCHANGED <<here, rows, issued, mail, injected, pulled>> /\ Fault
      /\ run' = [run EXCEPT ![d] = @ + 1]
      /\ roster' = [roster EXCEPT ![d] = {}]
      /\ shadow' = [shadow EXCEPT ![d] = [a \in Agents |-> 0]]
      /\ registering' = [registering EXCEPT ![d] = {}]
      /\ cursor' = [cursor EXCEPT ![d] = [i \in DOMAIN @ |-> 0]]
      /\ forwarded' = [forwarded EXCEPT ![d] = {}]
      /\ failures' = [failures EXCEPT ![d] = [p \in Devices |-> 0]]
      /\ calls' \subseteq calls
  BY DEF Restart, daemonVars, historyVars
<1>2. /\ loop' = [loop EXCEPT ![d] = "gossip"]
      /\ todo' = [todo EXCEPT ![d] = Devices \ {d}]
      /\ batch' = [batch EXCEPT ![d] = NoBatch]
      /\ answer' = [answer EXCEPT ![d] = [from |-> d, left |-> {}]]
  BY DEF Restart
<1>3. /\ run \in [Devices -> Nat] /\ faults \in Nat /\ faults < MaxFaults /\ faults' = faults + 1
      /\ \A e \in Devices : run[e] <= faults
  BY <1>1 DEF BridgeInv, WorldOK, CountersOK, Fault
<1>4. /\ run' \in [Devices -> Nat] /\ run'[d] > 0
      /\ \A e \in Devices : run'[e] = IF e = d THEN run[e] + 1 ELSE run[e]
  BY <1>1, <1>3
<1>5. CountersOK'
  BY <1>3, <1>4, IdsAreNumbers DEF CountersOK
<1>6. shadow' \in [Devices -> [Agents -> Nat]] /\ \A e \in Devices, x \in Agents : shadow'[e][x] \in {0, shadow[e][x]}
  BY <1>1 DEF BridgeInv, WorldOK, IdsOK
<1>7. IdsOK'
  <2>1. ASSUME NEW e \in Devices
        PROVE  issued'[e] <= Cardinality({x \in Agents : rows'[e][x] # 0}) + faults'
    <3> DEFINE R == {x \in Agents : rows[e][x] # 0}
    <3>1. issued[e] \in Nat /\ issued[e] <= Cardinality(R) + faults
      BY DEF BridgeInv, WorldOK, IdsOK
    <3>2. Cardinality(R) \in Nat
      BY FiniteAssumption, FS_Subset, FS_CardinalityType DEF FiniteAssumption
    <3>3. R = {x \in Agents : rows'[e][x] # 0} /\ issued' = issued
      BY <1>1
    <3> HIDE DEF R
    <3>4. QED BY <1>3, <3>1, <3>2, <3>3
  <2>2. QED BY <1>1, <1>6, <2>1 DEF BridgeInv, WorldOK, IdsOK
<1>8. RosterOK'
  <2>1. \A x \in Agents : shadow'[d][x] = 0
    BY <1>1 DEF BridgeInv, WorldOK, IdsOK
  <2>2. QED BY <1>1, <2>1 DEF BridgeInv, WorldOK, RosterOK, IdsOK
<1>9. OneNamePerId'
  <2>1. \A e \in Devices, i \in Nat \ {0}, x \in Agents : IsOf(e, i, x)' => IsOf(e, i, x)
    BY <1>1, <1>6 DEF IsOf
  <2>2. QED BY <1>1, <2>1 DEF BridgeInv, WorldOK, OneNamePerId
<1>10. WorldOK'
  BY <1>1, <1>5, <1>7, <1>8, <1>9, MailKept DEF BridgeInv, WorldOK
<1>11. SendOK'
  <2>1. cursor' \in [Devices -> [Ids -> Nat]]
    BY <1>1 DEF BridgeInv, SendOK
  <2>2. \A e \in Devices, i \in Ids : cursor'[e][i] <= Len(mail[e])
    <3>1. \A e \in Devices : Len(mail[e]) \in Nat
      BY DEF BridgeInv, WorldOK, MailOK
    <3>2. QED BY <1>1, <3>1 DEF BridgeInv, SendOK
  <2>3. forwarded' \in [Devices -> SUBSET Messages] /\ failures' \in [Devices -> [Devices -> 0..3]]
    BY <1>1 DEF BridgeInv, SendOK
  <2>4. QED BY <1>1, <2>1, <2>2, <2>3 DEF SendOK
<1>12. LoopOK'
  <2>1. /\ LoopOK /\ loop'[d] = "gossip" /\ todo'[d] = Peers(d) /\ batch'[d] = NoBatch
        /\ answer'[d] = [from |-> d, left |-> {}]
    BY <1>2 DEF BridgeInv, LoopOK, Peers
  <2>2. TodoOK(d)' /\ BatchOK(d)' /\ AnswerOK(d)'
    BY <2>1 DEF TodoOK, BatchOK, AnswerOK, NoBatch, Peers
  <2>3. \A e \in Devices \ {d} : failures'[e] = failures[e]
    BY <1>1 DEF BridgeInv, SendOK
  <2>4. QED BY <1>1, <1>2, <2>1, <2>2, <2>3, LoopKept DEF LoopOK, Turns
<1>13. CallsOK'
  BY <1>1, <1>3, <1>4, CallStays DEF BridgeInv, CallsOK
<1>14. PastOK'
  <2>1. HistoryOK'
    BY <1>1, MailKept DEF BridgeInv, WorldOK, PastOK, HistoryOK
  <2>2. /\ \A e \in Devices : forwarded'[e] \subseteq forwarded[e]
        /\ \A e \in Devices \ {d} : forwarded'[e] = forwarded[e]
    BY <1>1 DEF BridgeInv, SendOK
  <2>3. ForwardedArrived'
    BY <1>1, <2>2 DEF BridgeInv, PastOK, ForwardedArrived
  <2>4. Remembered'
    <3>1. SUFFICES ASSUME NEW e \in Devices, NEW k \in 1..Len(mail[e]),
                          injected[mail[e][k].msg] > 0
                   PROVE  \/ mail[e][k].msg \in forwarded'[Home[mail[e][k].name]]
                          \/ run'[Home[mail[e][k].name]] > 0
      BY <1>1 DEF Remembered
    <3>2. Home[mail[e][k].name] \in Devices
      BY LetterAt DEF BridgeInv, WorldOK
    <3>3. QED BY <1>3, <1>4, <2>2, <3>1, <3>2 DEF BridgeInv, PastOK, Remembered
  <2>5. QED BY <2>1, <2>3, <2>4 DEF PastOK
<1>15. QED BY <1>10, <1>11, <1>12, <1>13, <1>14 DEF BridgeInv

\* The new message has a number above all others, and is at the end of a mailbox.
LEMMA WriteMail ==
  ASSUME BridgeInv, NEW a \in Writers, NEW b \in Agents, Write(a, b)
  PROVE  LET d == Home[a]
             new == [msg |-> 1 + Written, to |-> rows[d][b], name |-> b, by |-> a]
         IN /\ d \in Devices /\ new \in Letters /\ new.to # 0
            /\ Written \in Nat /\ Written' = Written + 1
            /\ mail' = [mail EXCEPT ![d] = Append(@, new)]
            /\ mail' \in [Devices -> Seq(Letters)] /\ IsFiniteSet(Places')
<1> DEFINE d == Home[a]
           new == [msg |-> 1 + Written, to |-> rows[d][b], name |-> b, by |-> a]
<1>1. /\ mail' = [mail EXCEPT ![d] = Append(@, new)]
      /\ 1 + Written <= MaxMessages /\ rows[d][b] # 0
  BY DEF Write, Written, Places
<1>2. d \in Devices /\ a \in Agents
  BY HomeAssumption DEF HomeAssumption
<1>3. Written \in Nat /\ IsFiniteSet(Places)
  BY FS_CardinalityType DEF BridgeInv, WorldOK, MailOK, Written
<1>4. new \in Letters
  <2>1. 1 + Written \in Messages
    BY <1>1, <1>3, IdsAreNumbers DEF Messages
  <2>2. rows[d][b] \in Nat
    BY <1>2 DEF BridgeInv, WorldOK, IdsOK
  <2> HIDE DEF d
  <2>3. QED BY <1>2, <2>1, <2>2 DEF Letters
<1> HIDE DEF new
<1>5. mail \in [Devices -> Seq(Letters)]
  BY DEF BridgeInv, WorldOK, MailOK
<1>6. mail' \in [Devices -> Seq(Letters)]
  BY <1>1, <1>2, <1>4, <1>5
<1>7. Places' = Places \cup {<<d, Len(mail[d]) + 1>>} /\ <<d, Len(mail[d]) + 1>> \notin Places
  <2>1. /\ Len(mail[d]) \in Nat /\ Len(mail'[d]) = Len(mail[d]) + 1
        /\ \A e \in Devices \ {d} : mail'[e] = mail[e]
    BY <1>1, <1>2, <1>4, <1>5
  <2> HIDE DEF d
  <2>2. \A x : x \in Places <=> \E e \in Devices : \E n \in 1..Len(mail[e]) : x = <<e, n>>
    BY DEF Places
  <2>3. \A x : x \in Places' <=> \E e \in Devices : \E n \in 1..Len(mail'[e]) : x = <<e, n>>
    BY DEF Places
  <2>4. 1..Len(mail'[d]) = (1..Len(mail[d])) \cup {Len(mail[d]) + 1}
    BY <2>1
  <2>5. \A x : x \in Places' <=> x \in Places \/ x = <<d, Len(mail[d]) + 1>>
    BY <1>2, <2>1, <2>2, <2>3, <2>4
  <2>6. <<d, Len(mail[d]) + 1>> \notin Places
    BY <2>1, <2>2
  <2>7. QED BY <2>5, <2>6
<1>8. Written' = Written + 1 /\ IsFiniteSet(Places')
  BY <1>3, <1>7, FS_AddElement DEF Written
<1>9. new.to # 0
  BY <1>1 DEF new
<1>10. QED BY <1>1, <1>2, <1>3, <1>4, <1>6, <1>8, <1>9 DEF new

LEMMA WriteStep ==
  ASSUME BridgeInv, NEW a \in Writers, NEW b \in Agents, Write(a, b)
  PROVE  BridgeInv'
<1> DEFINE d == Home[a]
           new == [msg |-> 1 + Written, to |-> rows[d][b], name |-> b, by |-> a]
           last == Len(mail[d]) + 1
<1>1. UNCHANGED <<here, rows, issued, shadowVars, sendVars, loopVars, calls, run, faults, historyVars>>
  BY DEF Write
<1>2. UNCHANGED <<shadow, roster, registering, cursor, forwarded, failures, loop, todo, batch, answer, injected, pulled>>
  BY <1>1 DEF shadowVars, sendVars, loopVars, historyVars
<1>3. /\ d \in Devices /\ new \in Letters /\ new.to # 0
      /\ Written \in Nat /\ Written' = Written + 1
      /\ mail' = [mail EXCEPT ![d] = Append(@, new)]
      /\ mail' \in [Devices -> Seq(Letters)] /\ IsFiniteSet(Places')
  BY WriteMail
<1>4. mail \in [Devices -> Seq(Letters)] /\ \A e \in Devices : mail[e] \in Seq(Letters) /\ Len(mail[e]) \in Nat
  BY DEF BridgeInv, WorldOK, MailOK
<1>5. new.msg = Written + 1 /\ new.name = b /\ new.to = rows[d][b]
  BY <1>3
<1> HIDE DEF new, d
<1>6. /\ Len(mail'[d]) = last /\ mail'[d][last] = new
      /\ \A n \in 1..Len(mail[d]) : mail'[d][n] = mail[d][n]
      /\ \A e \in Devices \ {d} : mail'[e] = mail[e]
  BY <1>3, <1>4
<1>7. \A e \in Devices : Len(mail[e]) <= Len(mail'[e])
  BY <1>4, <1>6
<1>8. \A e \in Devices : \A n \in 1..Len(mail[e]) : n \in 1..Len(mail'[e]) /\ mail'[e][n] = mail[e][n]
  BY <1>4, <1>6
<1>9. \A e \in Devices : \A n \in 1..Len(mail'[e]) :
        \/ n \in 1..Len(mail[e]) /\ mail'[e][n] = mail[e][n]
        \/ e = d /\ n = last /\ mail'[e][n] = new
  BY <1>4, <1>6
<1> HIDE DEF last
<1>10. \A e \in Devices : \A n \in 1..Len(mail[e]) :
         mail[e][n] \in Letters /\ mail[e][n].msg \in Nat /\ mail[e][n].msg <= Written /\ mail[e][n].to # 0
  BY LetterAt DEF BridgeInv, WorldOK, MailOK, Messages
<1>11. MailOK'
  BY <1>3, <1>5, <1>9, <1>10 DEF MailOK
<1>12. OneNamePerMessage'
  <2>1. SUFFICES ASSUME NEW e \in Devices, NEW f \in Devices,
                        NEW n \in 1..Len(mail'[e]), NEW k \in 1..Len(mail'[f]),
                        mail'[e][n].msg = mail'[f][k].msg
                 PROVE  mail'[e][n].name = mail'[f][k].name
    BY DEF OneNamePerMessage
  <2>2. CASE n \in 1..Len(mail[e]) /\ mail'[e][n] = mail[e][n] /\ k \in 1..Len(mail[f]) /\ mail'[f][k] = mail[f][k]
    BY <2>1, <2>2 DEF BridgeInv, WorldOK, OneNamePerMessage
  <2>3. CASE mail'[e][n] = new /\ k \in 1..Len(mail[f]) /\ mail'[f][k] = mail[f][k]
    BY <1>3, <1>5, <1>10, <2>1, <2>3
  <2>4. CASE mail'[f][k] = new /\ n \in 1..Len(mail[e]) /\ mail'[e][n] = mail[e][n]
    BY <1>3, <1>5, <1>10, <2>1, <2>4
  <2>5. CASE mail'[e][n] = new /\ mail'[f][k] = new
    BY <2>5
  <2>6. QED BY <1>9, <2>2, <2>3, <2>4, <2>5
<1>13. OneNamePerId'
  <2>1. ASSUME NEW e \in Devices, NEW i \in Nat \ {0}, NEW x \in Agents, IsOf(e, i, x)'
        PROVE  IsOf(e, i, x)
    <3>1. CASE rows'[e][x] = i \/ shadow'[e][x] = i
      BY <1>1, <1>2, <3>1 DEF IsOf
    <3>2. CASE \E n \in 1..Len(mail'[e]) : mail'[e][n].to = i /\ mail'[e][n].name = x
      BY <1>5, <1>9, <3>2 DEF IsOf
    <3>3. QED BY <2>1, <3>1, <3>2 DEF IsOf
  <2>2. QED BY <1>1, <2>1 DEF BridgeInv, WorldOK, OneNamePerId
<1>14. WorldOK'
  <2>1. CountersOK' /\ RosterOK'
    BY <1>1, <1>2, CountersKept DEF BridgeInv, WorldOK, RosterOK, FaultOrNot
  <2>2. IdsOK'
    BY <1>1, <1>2, IdsKept DEF BridgeInv, WorldOK, FaultOrNot
  <2>3. QED BY <1>11, <1>12, <1>13, <2>1, <2>2 DEF WorldOK
<1>15. SendOK'
  <2>1. \A e \in Devices, i \in Ids : cursor[e][i] <= Len(mail'[e])
    <3>1. ASSUME NEW e \in Devices, NEW i \in Ids PROVE cursor[e][i] <= Len(mail'[e])
      <4>1. cursor[e][i] \in Nat /\ cursor[e][i] <= Len(mail[e])
        BY DEF BridgeInv, SendOK
      <4>2. Len(mail'[e]) \in Nat
        BY <1>3
      <4>3. QED BY <1>4, <1>7, <4>1, <4>2
    <3>2. QED BY <3>1
  <2>2. QED BY <1>2, <2>1 DEF BridgeInv, SendOK
<1>16. LoopOK'
  <2>1. ASSUME NEW e \in Devices PROVE TodoOK(e)' /\ BatchOK(e)' /\ AnswerOK(e)'
    <3>1. TodoOK(e) /\ BatchOK(e) /\ AnswerOK(e)
      BY DEF BridgeInv, LoopOK
    <3>2. TodoOK(e)'
      BY <1>2, <3>1 DEF TodoOK, Peers
    <3>3. AnswerOK(e)'
      BY <1>2, <1>8, <3>1 DEF AnswerOK
    <3>4. BatchOK(e)'
      <4>1. batch[e].left # {} => Current(e)' = Current(e)
        BY <1>2, <1>8, <3>1, CurrentIsLetter DEF Current, BridgeInv, WorldOK
      <4>2. batch[e].read \subseteq 1..Len(mail'[e])
        BY <1>8, <3>1 DEF BatchOK
      <4>3. QED BY <1>2, <3>1, <4>1, <4>2 DEF BatchOK, Healthy, PeerOf
    <3>5. QED BY <3>2, <3>3, <3>4
  <2>2. QED BY <1>2, <2>1 DEF BridgeInv, LoopOK
<1>17. CallsOK'
  <2>1. SUFFICES ASSUME NEW c \in calls, CallOK(c) PROVE CallOK(c)'
    BY <1>1 DEF BridgeInv, CallsOK
  <2>2. c.from \in Devices
    BY <2>1 DEF CallOK, Calls
  <2>3. \E n \in 1..Len(mail'[c.from]) : mail'[c.from][n].msg = c.msg /\ mail'[c.from][n].name = c.name
    BY <1>8, <2>1, <2>2 DEF CallOK
  <2>4. QED BY <1>1, <1>2, <2>1, <2>3 DEF CallOK
<1>18. PastOK'
  <2>1. HistoryOK'
    BY <1>2, <1>3 DEF BridgeInv, PastOK, HistoryOK, Messages
  <2>2. ForwardedArrived'
    BY <1>2 DEF BridgeInv, PastOK, ForwardedArrived
  <2>3. Remembered'
    <3>1. new.msg \in Messages
      BY <1>3 DEF Letters
    <3>2. ~(injected[new.msg] > 0)
      BY <1>3, <1>5, <3>1 DEF BridgeInv, PastOK, HistoryOK
    <3>3. QED BY <1>1, <1>2, <1>9, <3>2 DEF BridgeInv, PastOK, Remembered
  <2>4. QED BY <2>1, <2>2, <2>3 DEF PastOK
<1>19. QED BY <1>14, <1>15, <1>16, <1>17, <1>18 DEF BridgeInv

-----------------------------------------------------------------------------
(* The theorems *)

LEMMA BridgeStep == BridgeInv /\ [Next]_vars => BridgeInv'
<1> SUFFICES ASSUME BridgeInv, [Next]_vars PROVE BridgeInv'
  OBVIOUS
<1>1. CASE \E d \in Devices : Handle(d)
  <2>1. PICK d \in Devices : Handle(d)
    BY <1>1
  <2>2. CASE \E a \in Agents : Registered(d, a)
    BY <2>2, RegisteredStep
  <2>3. CASE \E c \in calls : c.to = d /\ (Begin(c) \/ Inject(c))
    <3>1. PICK c \in calls : c.to = d /\ (Begin(c) \/ Inject(c))
      BY <2>3
    <3>2. c.to \in Devices
      BY <3>1
    <3>3. CASE Begin(c)
      BY <3>2, <3>3, BeginStep
    <3>4. CASE Inject(c)
      BY <3>2, <3>4, RefusedStep, AcceptedStep
    <3>5. QED BY <3>1, <3>3, <3>4
  <2>4. QED BY <2>1, <2>2, <2>3 DEF Handle
<1>2. CASE \E d \in Devices : MainLoop(d)
  <2>1. PICK d \in Devices : MainLoop(d)
    BY <1>2
  <2>2. CASE \E p \in Devices : Gossip(d, p)
    BY <2>2, GossipStep
  <2>3. CASE Push(d)
    <3>1. CASE \E a \in Agents : Read(d, a)
      BY <3>1, ReadStep
    <3>2. CASE Skip(d) \/ Forwarded(d) \/ HoldBack(d)
      BY <3>2, SkipStep, EndedStep
    <3>3. CASE Post(d) \/ Fails(d)
      BY <3>3, PostStep, FailsStep
    <3>4. CASE \E c \in calls : Succeeds(d, c)
      BY <3>4, SucceedsStep
    <3>5. QED BY <2>3, <3>1, <3>2, <3>3, <3>4 DEF Push
  <2>4. CASE Pull(d)
    BY <2>4, PullRosterStep, CollectStep, DeliverNextStep, PullEndsStep DEF Pull
  <2>5. CASE TurnToForward(d) \/ TurnToPull(d) \/ TurnToGossip(d)
    BY <2>5, TurnStep
  <2>6. QED BY <2>1, <2>2, <2>3, <2>4, <2>5 DEF MainLoop
<1>3. CASE \E d \in Devices : Restart(d)
  BY <1>3, RestartStep
<1>4. CASE \E d \in Devices, a \in Agents : Reap(d, a)
  BY <1>4, ReapStep
<1>5. CASE \E a \in Writers, b \in Agents : Write(a, b)
  BY <1>5, WriteStep
<1>6. CASE \E a \in Agents : Come(a) \/ Go(a)
  BY <1>6, ComeGoStep
<1>7. CASE UNCHANGED vars
  <2>1. /\ UNCHANGED <<daemonVars, shadowVars, sendVars, loopVars, calls, run, faults, historyVars>>
        /\ UNCHANGED <<mail, forwarded, failures>>
    BY <1>7 DEF vars, daemonVars, sendVars
  <2>2. SendOK' /\ LoopOK'
    BY <2>1, SendKept, LoopUntouched DEF BridgeInv
  <2>3. QED BY <2>1, <2>2, LoopStep
<1>8. QED
  BY <1>1, <1>2, <1>3, <1>4, <1>5, <1>6, <1>7 DEF Next

\* The invariant holds of every reachable state of the bridges.
THEOREM BridgeInvariant == Spec => []BridgeInv
<1>1. QED BY BridgeInit, BridgeStep, PTL DEF Spec

LEMMA BridgeTypes == BridgeInv => TypeOK
<1> SUFFICES ASSUME BridgeInv PROVE TypeOK
  OBVIOUS
<1>1. ASSUME NEW d \in Devices
      PROVE  /\ issued[d] \in {0} \cup Ids
             /\ rows[d] \in [Agents -> 0..issued[d]] /\ shadow[d] \in [Agents -> 0..issued[d]]
             /\ roster[d] \subseteq Remote(d) /\ registering[d] \subseteq roster[d]
             /\ cursor[d] \in [Ids -> 0..Len(mail[d])]
             /\ failures[d] \in [Devices -> 0..3]
             /\ batch[d].left \subseteq batch[d].read
  <2>1. issued[d] \in Nat /\ rows[d] \in [Agents -> Nat] /\ shadow[d] \in [Agents -> Nat]
    BY DEF BridgeInv, WorldOK, IdsOK
  <2>2. \A a \in Agents : rows[d][a] <= issued[d] /\ shadow[d][a] <= issued[d]
    BY IdInRange DEF BridgeInv, WorldOK
  <2>3. issued[d] <= Cardinality(Agents) + MaxFaults
    <3>1. CASE Agents = {}
      <4>1. {a \in Agents : rows[d][a] # 0} = {}
        BY <3>1
      <4>2. issued[d] <= Cardinality({}) + faults
        BY <4>1 DEF BridgeInv, WorldOK, IdsOK
      <4>3. faults \in Nat /\ faults <= MaxFaults
        BY DEF BridgeInv, WorldOK, CountersOK
      <4>4. QED BY <2>1, <3>1, <4>2, <4>3, FS_EmptySet, IdsAreNumbers
    <3>2. CASE Agents # {}
      BY <3>2, IdInRange DEF BridgeInv, WorldOK
    <3>3. QED BY <3>1, <3>2
  <2>4. issued[d] \in {0} \cup Ids
    BY <2>1, <2>3, IdsAreNumbers
  <2>5. rows[d] \in [Agents -> 0..issued[d]] /\ shadow[d] \in [Agents -> 0..issued[d]]
    BY <2>1, <2>2
  <2>6. roster[d] \subseteq Remote(d) /\ registering[d] \subseteq roster[d]
    BY DEF BridgeInv, WorldOK, RosterOK
  <2>7. cursor[d] \in [Ids -> 0..Len(mail[d])]
    <3>1. Len(mail[d]) \in Nat
      BY DEF BridgeInv, WorldOK, MailOK
    <3>2. cursor[d] \in [Ids -> Nat] /\ \A i \in Ids : cursor[d][i] <= Len(mail[d])
      BY DEF BridgeInv, SendOK
    <3>3. QED BY <3>1, <3>2
  <2>8. failures[d] \in [Devices -> 0..3] /\ batch[d].left \subseteq batch[d].read
    BY DEF BridgeInv, SendOK, LoopOK, BatchOK
  <2>9. QED BY <2>4, <2>5, <2>6, <2>7, <2>8
<1>2. here \subseteq Agents /\ loop \in [Devices -> Turns]
  BY DEF BridgeInv, WorldOK, RosterOK, LoopOK
<1>3. calls \subseteq Calls
  BY DEF BridgeInv, CallsOK, CallOK
<1>4. injected \in [Messages -> Nat] /\ pulled \subseteq Messages
  BY DEF BridgeInv, PastOK, HistoryOK
<1>5. QED BY <1>1, <1>2, <1>3, <1>4 DEF TypeOK

\* Types: three failures at most are counted, no cursor is past its mailbox, and
\* the ids the daemon gives never run out of the range the cursors are for.
THEOREM BridgeTypeCorrect == Spec => []TypeOK
<1>1. QED BY BridgeInvariant, BridgeTypes, PTL

\* The bridge forgets a message (forwardedIds) only when it is in the daemon of
\* its recipient or was handed out in the answer to a pull.
THEOREM BridgeForwardedArrived == Spec => []ForwardedArrived
<1>1. BridgeInv => ForwardedArrived
  BY DEF BridgeInv, PastOK
<1>2. QED BY <1>1, BridgeInvariant, PTL

\* handleDeliver puts a message into the daemon again only if the bridge was
\* restarted, or if the delivery had begun before the earlier one ended.
THEOREM BridgeSecondOnlyByOverlap == Spec => SecondOnlyByOverlap
<1>1. BridgeInv => \A c \in calls : Inject(c) /\ c.again => run[c.to] > 0
  BY DEF BridgeInv, CallsOK, CallOK
<1>2. BridgeInv => [\A c \in calls : Inject(c) /\ c.again => run[c.to] > 0]_vars
  BY <1>1
<1>3. QED BY <1>2, BridgeInvariant, PTL DEF SecondOnlyByOverlap

\* What a bridge pulls or pushes goes to the device where its recipient lives,
\* although the two know their agents only by the ids of shadow rows.
OnlyHome == \A c \in calls : c.to = Home[c.name]

\* The push of the main loop, and collectOutbound for a pull, know the recipient of
\* a message only by the agent_id it was written to. Each hands it to the device
\* of its agent, since an id never passes from one name to another.
THEOREM BridgeOnlyHome == Spec => []OnlyHome
<1>1. BridgeInv => OnlyHome
  BY DEF BridgeInv, CallsOK, CallOK, OnlyHome
<1>2. QED BY <1>1, BridgeInvariant, PTL

=============================================================================
