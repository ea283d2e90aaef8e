--------------------------- MODULE Pairing_proofs ---------------------------
(***************************************************************************)
(* Theorems about pairing (module Pairing), for any joiners, invites and   *)
(* number of moves.                                                        *)
(*                                                                         *)
(* That an invite is decided once needs that what was decided is pending   *)
(* no more and its invite used up; that a joiner trusts only after an      *)
(* approval needs that ids are unique, that a joiner polls for a request   *)
(* of its own, and that what it hands over or writes was approved.         *)
(***************************************************************************)
EXTENDS Pairing, TLAPS

Approved == {a.from : a \in approvals}

\* A request has an id of its own.
IdsAreUnique == \A r, s \in Made : r.id = s.id => r = s

\* A decision in memory is a person's.
DecisionsAreReal ==
  \A d \in decided : d.status = "approved" => \E a \in approvals : a.id = d.id

\* What was decided, and saved, is not pending, nor is its invite active.
DecidedIsGone ==
  \A a \in (approvals \ unsaved) \cup denials :
    a \notin pending /\ (a.invite # 0 => a.invite \notin invites)

\* A joiner asks about the request it made.
PollsItsOwn ==
  \A j \in Joiners : joiner[j].pc # "idle" => \A r \in Made : r.id = joiner[j].id => r.from = j

\* What it hands over, has written or has copied was approved.
HandsOverApproved ==
  \A j \in Joiners :
    joiner[j].pc \in {"handing over", "writing"} \/ "inviter" \in copy[j] => j \in Approved

Asking == IdsAreUnique /\ DecisionsAreReal /\ DecidedIsGone /\ InviteDecidedOnce
Joining == PollsItsOwn /\ HandsOverApproved
Trusting == TrustedAfterApproval /\ RevocationHolds

PairInv == TypeOK /\ Asking /\ Joining /\ Trusting

\* Trust in terms of Approved
LEMMA TrustedIsApproved ==
  TrustedAfterApproval <=>
    /\ trust \cup file \subseteq Approved
    /\ \A j \in Joiners : "inviter" \in known[j] \cup peers[j] => j \in Approved
BY DEF TrustedAfterApproval, Approved

\* A move is within its bound, and so are the requests made so far.
LEMMA Moving ==
  ASSUME TypeOK, Move
  PROVE  /\ moves \in Nat /\ asked \in Nat /\ moves' = moves + 1 /\ moves' \in 0..MaxMoves
         /\ asked \in 0..moves' /\ asked + 1 \in 0..moves'
<1>1. MaxMoves \in Nat /\ moves \in 0..MaxMoves /\ asked \in 0..moves
  BY BoundsAssumption DEF TypeOK
<1>2. moves < MaxMoves /\ moves' = moves + 1
  BY DEF Move
<1>3. QED BY <1>1, <1>2

-----------------------------------------------------------------------------
(* What steps leave alone. *)

\* The invariant is kept by steps that leave its variables alone.
LEMMA AskingFrame ==
  ASSUME Asking, UNCHANGED <<pending, invites, decided, approvals, denials, unsaved>>
  PROVE  Asking'
BY DEF Asking, IdsAreUnique, DecisionsAreReal, DecidedIsGone, InviteDecidedOnce, Made

LEMMA JoiningFrame ==
  ASSUME Joining, UNCHANGED <<joiner, copy>>, Made' \subseteq Made, approvals \subseteq approvals'
  PROVE  Joining'
BY DEF Joining, PollsItsOwn, HandsOverApproved, Approved

LEMMA TrustingFrame ==
  ASSUME Trusting, UNCHANGED <<trust, file, revoked, known, peers>>, approvals \subseteq approvals'
  PROVE  Trusting'
BY DEF Trusting, TrustedAfterApproval, RevocationHolds

\* Fewer invites, requests and decisions, none of a request that was decided
LEMMA AskingShrinks ==
  ASSUME Asking, UNCHANGED <<approvals, denials, unsaved>>,
         pending' \subseteq pending, invites' \subseteq invites, decided' \subseteq decided
  PROVE  Asking'
BY DEF Asking, IdsAreUnique, DecisionsAreReal, DecidedIsGone, InviteDecidedOnce, Made

-----------------------------------------------------------------------------
(* The inviter. *)

LEMMA CreateInviteStep ==
  ASSUME PairInv, CreateInvite
  PROVE  PairInv'
<1>1. /\ made' = made + 1 /\ invites' = invites \cup {made + 1} /\ moves' = moves + 1
      /\ moves' \in 0..MaxMoves /\ asked \in 0..moves'
      /\ UNCHANGED <<pending, decided, trust, file, joining, history>>
  BY Moving DEF CreateInvite, Move, PairInv
<1>0. made \in Nat /\ made' \in 0..MaxInvites
  <2>1. MaxInvites \in Nat /\ made \in 0..MaxInvites /\ made < MaxInvites
    BY BoundsAssumption DEF CreateInvite, PairInv, TypeOK
  <2>2. QED BY <1>1, <2>1
<1>2. Made' = Made /\ Made \subseteq [id : 1..asked, invite : 0..made, from : Joiners]
  BY <1>1 DEF history, Made, PairInv, TypeOK
<1>3. [id : 1..asked, invite : 0..made, from : Joiners] \subseteq [id : 1..asked, invite : 0..made', from : Joiners]
  BY <1>0, <1>1
<1>4. invites' \subseteq 1..made'
  <2>1. made' = made + 1 /\ invites' = invites \cup {made + 1} /\ invites \subseteq 1..made
    BY <1>1 DEF PairInv, TypeOK
  <2>2. 1..made \subseteq 1..made' /\ made + 1 \in 1..made'
    BY <1>0, <2>1
  <2>3. QED BY <2>1, <2>2
<1>5. TypeOK'
  <2>1. Made' \subseteq [id : 1..asked, invite : 0..made', from : Joiners]
    BY <1>2, <1>3
  <2>2. \A p \in pending' : p.invite \in invites' \cup {0}
    BY <1>1 DEF PairInv, TypeOK
  <2>3. QED BY <1>0, <1>1, <1>4, <2>1, <2>2 DEF history, joining, PairInv, TypeOK
<1>6. Asking'
  <2>1. \A a \in Made : a.invite # made + 1
    BY <1>0, <1>2
  <2>2. DecidedIsGone'
    BY <1>1, <2>1 DEF history, PairInv, Asking, DecidedIsGone, Made
  <2>3. QED
    BY <1>1, <1>2, <2>2 DEF history, PairInv, Asking, IdsAreUnique, DecisionsAreReal, InviteDecidedOnce
<1>7. Joining' /\ Trusting'
  BY <1>1, <1>2, JoiningFrame, TrustingFrame DEF history, joining, PairInv
<1>8. QED BY <1>5, <1>6, <1>7 DEF PairInv

\* What expires or is forgotten only takes away.
LEMMA ExpiryStep ==
  ASSUME PairInv,
         \/ \E i \in Invites : ExpireInvite(i)
         \/ \E p \in pending : ExpireRequest(p)
         \/ ForgetDecision
  PROVE  PairInv'
<1>1. /\ moves' = moves + 1 /\ moves' \in 0..MaxMoves /\ asked \in 0..moves'
      /\ pending' \subseteq pending /\ invites' \subseteq invites /\ decided' \subseteq decided
      /\ UNCHANGED <<made, trust, file, joining, history>>
  BY Moving DEF ExpireInvite, ExpireRequest, ForgetDecision, PairInv
<1>2. \A p \in pending' : p.invite \in invites' \cup {0}
  BY DEF ExpireInvite, ExpireRequest, ForgetDecision, PairInv, TypeOK
<1>3. Made' \subseteq Made
  BY <1>1 DEF history, Made
<1>4. TypeOK'
  BY <1>1, <1>2, <1>3 DEF history, joining, PairInv, TypeOK
<1>5. Asking' /\ Joining' /\ Trusting'
  BY <1>1, <1>3, AskingShrinks, JoiningFrame, TrustingFrame DEF history, joining, PairInv
<1>6. QED BY <1>4, <1>5 DEF PairInv

\* After a restart only the trust file is left.
LEMMA RestartStep ==
  ASSUME PairInv, Restart
  PROVE  PairInv'
<1>1. /\ moves' = moves + 1 /\ moves' \in 0..MaxMoves /\ asked \in 0..moves'
      /\ pending' = {} /\ invites' = {} /\ decided' = {} /\ trust' = file
      /\ UNCHANGED <<made, file, joining, history>>
  BY Moving DEF Restart, PairInv
<1>2. Made' \subseteq Made
  BY <1>1 DEF history, Made
<1>3. TypeOK'
  BY <1>1, <1>2 DEF history, joining, PairInv, TypeOK
<1>4. Asking' /\ Joining'
  BY <1>1, <1>2, AskingShrinks, JoiningFrame DEF history, joining, PairInv
<1>5. Trusting'
  BY <1>1 DEF history, joining, PairInv, Trusting, TrustedAfterApproval, RevocationHolds
<1>6. QED BY <1>3, <1>4, <1>5 DEF PairInv

\* A decision uses up its invite and every request of it.
LEMMA ConsumedTakesAll ==
  ASSUME PairInv, NEW p \in pending, Consumed(p)
  PROVE  /\ pending' \subseteq pending /\ invites' \subseteq invites
         /\ p \notin pending' /\ p.invite \notin invites'
         /\ \A q \in pending' : q.invite \in invites' \cup {0}
BY DEF Consumed, PairInv, TypeOK, Made

\* What is decided now was pending, so neither it nor its invite was decided before.
LEMMA PendingIsUndecided ==
  ASSUME PairInv, NEW p \in pending
  PROVE  \A a \in (approvals \ unsaved) \cup denials :
           a # p /\ (a.invite = p.invite => a.invite = 0)
BY DEF PairInv, Asking, DecidedIsGone, TypeOK

LEMMA DecideStep ==
  ASSUME PairInv, NEW p \in pending, NEW status \in {"approved", "denied"},
         Consumed(p), Decide(p, status),
         approvals' = IF status = "approved" THEN approvals \cup {p} ELSE approvals,
         denials' = IF status = "denied" THEN denials \cup {p} ELSE denials,
         UNCHANGED <<unsaved, asked>>
  PROVE  /\ Asking'
         /\ decided' \subseteq [id : 1..asked, status : {"approved", "denied"}]
<1>1. Made' \subseteq Made
  BY ConsumedTakesAll DEF Made
<1>2. IdsAreUnique'
  BY <1>1 DEF PairInv, Asking, IdsAreUnique
<1>3. decided' = decided \cup {[id |-> p.id, status |-> status]}
  BY DEF Decide
<1>4. DecisionsAreReal'
  <2>1. ASSUME NEW d \in decided', d.status = "approved" PROVE \E a \in approvals' : a.id = d.id
    <3>1. CASE d \in decided
      BY <2>1, <3>1 DEF PairInv, Asking, DecisionsAreReal
    <3>2. CASE d = [id |-> p.id, status |-> status]
      BY <2>1, <3>2
    <3>3. QED BY <1>3, <2>1, <3>1, <3>2
  <2>2. QED BY <2>1 DEF DecisionsAreReal
<1>5. (approvals' \ unsaved') \cup denials' \subseteq (approvals \ unsaved) \cup denials \cup {p}
  OBVIOUS
<1>6. DecidedIsGone'
  BY <1>5, ConsumedTakesAll DEF PairInv, Asking, DecidedIsGone
<1>7. InviteDecidedOnce'
  <2>1. (approvals' \ unsaved') \cap denials' = {}
    BY PendingIsUndecided DEF PairInv, Asking, InviteDecidedOnce
  <2>2. \A a, d \in (approvals' \ unsaved') \cup denials' : a.invite = d.invite /\ a.invite # 0 => a = d
    BY <1>5, PendingIsUndecided DEF PairInv, Asking, InviteDecidedOnce
  <2>3. QED BY <2>1, <2>2 DEF InviteDecidedOnce
<1>8. decided' \subseteq [id : 1..asked, status : {"approved", "denied"}]
  <2>1. p.id \in 1..asked
    BY DEF PairInv, TypeOK, Made
  <2>2. [id |-> p.id, status |-> status] \in [id : 1..asked, status : {"approved", "denied"}]
    BY <2>1
  <2>3. decided \subseteq [id : 1..asked, status : {"approved", "denied"}]
    BY DEF PairInv, TypeOK
  <2>4. QED BY <1>3, <2>2, <2>3
<1>9. QED BY <1>2, <1>4, <1>6, <1>7, <1>8 DEF Asking

LEMMA ApproveStep ==
  ASSUME PairInv, NEW p \in pending, Approve(p)
  PROVE  PairInv'
<1>1. /\ moves' = moves + 1 /\ moves' \in 0..MaxMoves /\ asked \in 0..moves'
      /\ Consumed(p) /\ Decide(p, "approved")
      /\ trust' = trust \cup {p.from} /\ file' = trust'
      /\ approvals' = approvals \cup {p} /\ revoked' = revoked \ {p.from}
      /\ UNCHANGED <<made, joining, asked, denials, unsaved, result>>
  BY Moving DEF Approve, PairInv
<1>2. Asking' /\ decided' \subseteq [id : 1..asked, status : {"approved", "denied"}]
  BY <1>1, DecideStep
<1>3. Made' \subseteq Made /\ p.from \in Joiners
  BY <1>1, ConsumedTakesAll DEF Made, PairInv, TypeOK
<1>4. TypeOK'
  BY <1>1, <1>2, <1>3, ConsumedTakesAll DEF joining, PairInv, TypeOK
<1>5. Joining'
  BY <1>1, <1>3, JoiningFrame DEF joining, PairInv
<1>6. Trusting'
  BY <1>1 DEF joining, PairInv, Trusting, TrustedAfterApproval, RevocationHolds
<1>7. QED BY <1>2, <1>4, <1>5, <1>6 DEF PairInv

LEMMA ApproveUnsavedStep ==
  ASSUME PairInv, NEW p \in pending, ApproveUnsaved(p)
  PROVE  PairInv'
<1>1. /\ moves' = moves + 1 /\ moves' \in 0..MaxMoves /\ asked \in 0..moves'
      /\ trust' = trust \cup {p.from} /\ unsaved' = unsaved \cup {p}
      /\ approvals' = approvals \cup {p} /\ revoked' = revoked \ {p.from}
      /\ UNCHANGED <<invites, made, pending, decided, file, joining, asked, denials, result>>
  BY Moving DEF ApproveUnsaved, PairInv
<1>2. Made' = Made /\ p.from \in Joiners
  BY <1>1 DEF Made, PairInv, TypeOK
<1>3. TypeOK'
  BY <1>1, <1>2 DEF joining, PairInv, TypeOK
<1>4. Asking'
  <2>1. (approvals' \ unsaved') \subseteq approvals \ unsaved
    BY <1>1
  <2>2. QED
    BY <1>1, <1>2, <2>1 DEF PairInv, Asking, IdsAreUnique, DecisionsAreReal, DecidedIsGone, InviteDecidedOnce
<1>5. Joining'
  BY <1>1, <1>2, JoiningFrame DEF joining, PairInv
<1>6. Trusting'
  BY <1>1 DEF joining, PairInv, Trusting, TrustedAfterApproval, RevocationHolds
<1>7. QED BY <1>3, <1>4, <1>5, <1>6 DEF PairInv

LEMMA DenyStep ==
  ASSUME PairInv, NEW p \in pending, Deny(p)
  PROVE  PairInv'
<1>1. /\ moves' = moves + 1 /\ moves' \in 0..MaxMoves /\ asked \in 0..moves'
      /\ Consumed(p) /\ Decide(p, "denied") /\ denials' = denials \cup {p}
      /\ UNCHANGED <<made, trust, file, joining, asked, approvals, unsaved, revoked, result>>
  BY Moving DEF Deny, PairInv
<1>2. Asking' /\ decided' \subseteq [id : 1..asked, status : {"approved", "denied"}]
  BY <1>1, DecideStep
<1>3. Made' \subseteq Made
  BY <1>1, ConsumedTakesAll DEF Made
<1>4. TypeOK'
  BY <1>1, <1>2, <1>3, ConsumedTakesAll DEF joining, PairInv, TypeOK
<1>5. Joining' /\ Trusting'
  BY <1>1, <1>3, JoiningFrame, TrustingFrame DEF joining, PairInv
<1>6. QED BY <1>2, <1>4, <1>5 DEF PairInv

\* Revoked from memory and, unless the write fails, from the file
LEMMA RevokeStep ==
  ASSUME PairInv, NEW j \in Joiners, Revoke(j) \/ RevokeUnsaved(j)
  PROVE  PairInv'
<1>1. /\ moves' = moves + 1 /\ moves' \in 0..MaxMoves /\ asked \in 0..moves'
      /\ trust' = trust \ {j}
      /\ \/ file' = trust' /\ revoked' = revoked \cup {j}
         \/ file' = file /\ revoked' = revoked
      /\ UNCHANGED <<invites, made, pending, decided, joining, asked, approvals, denials, unsaved, result>>
  BY Moving DEF Revoke, RevokedFrom, RevokeUnsaved, history, PairInv
<1>2. Made' = Made
  BY <1>1 DEF Made
<1>3. TypeOK'
  BY <1>1, <1>2 DEF joining, PairInv, TypeOK
<1>4. Asking' /\ Joining'
  BY <1>1, <1>2, AskingFrame, JoiningFrame DEF joining, PairInv
<1>5. Trusting'
  BY <1>1 DEF joining, PairInv, Trusting, TrustedAfterApproval, RevocationHolds
<1>6. QED BY <1>3, <1>4, <1>5 DEF PairInv

-----------------------------------------------------------------------------
(* The joiners. *)

Attempt(n) ==
  [pc : {"idle", "polling", "handing over", "writing"}, id : 0..n, byInvite : BOOLEAN]

\* What a joiner is, each part by itself
LEMMA JoinerTypes ==
  ASSUME TypeOK
  PROVE  /\ joiner \in [Joiners -> Attempt(asked)]
         /\ \A j \in Joiners : joiner[j].pc # "idle" => joiner[j].id # 0
         /\ \A j \in Joiners : joiner[j].id \in 0..asked
         /\ known \in [Joiners -> Store] /\ peers \in [Joiners -> Store] /\ copy \in [Joiners -> Store]
BY DEF TypeOK, Attempt

\* Requests are counted from none.
LEMMA AskedIsNatural ==
  ASSUME TypeOK
  PROVE  asked \in Nat /\ 0 \in 0..asked
<1>1. MaxMoves \in Nat /\ moves \in 0..MaxMoves /\ asked \in 0..moves
  BY BoundsAssumption DEF TypeOK
<1>2. moves \in Nat
  BY <1>1
<1>3. asked \in Nat
  BY <1>1, <1>2
<1>4. QED BY <1>3

\* What a request is
LEMMA MadeTypes ==
  ASSUME TypeOK
  PROVE  /\ Made \subseteq [id : 1..asked, invite : 0..made, from : Joiners]
         /\ \A r \in Made : r.id \in 1..asked /\ r.from \in Joiners
BY DEF TypeOK

\* A new request has an id that no request had; its invite is active, so it was
\* not decided; the joiner polls for it or has given up.
LEMMA AsksStep ==
  ASSUME PairInv, NEW j \in Joiners, NEW i \in invites \cup {0}, Asks(j, i), Move,
         copy' \in {copy, [copy EXCEPT ![j] = peers[j]]},
         UNCHANGED <<invites, made, decided, trust, file, runtime, known, peers>>,
         UNCHANGED <<approvals, denials, unsaved, revoked>>
  PROVE  PairInv'
<1> DEFINE new == [id |-> asked + 1, invite |-> i, from |-> j]
<1>1. asked' = asked + 1 /\ asked \in Nat /\ asked' \in 0..moves' /\ moves' \in 0..MaxMoves
  BY Moving DEF Asks, PairInv
<1>2. pending' = pending \cup {new} /\ Made' = Made \cup {new}
  BY DEF Asks, Made
<1>3. \A r \in Made : r.id # asked + 1 /\ r.id \in 1..asked
  <2>1. \A r \in Made : r.id \in 1..asked
    BY MadeTypes DEF PairInv
  <2>2. QED BY <1>1, <2>1
<1>4. new \notin Made
  <2>1. new.id = asked + 1
    OBVIOUS
  <2>2. QED BY <1>3, <2>1
<1>5. Made' \subseteq [id : 1..asked', invite : 0..made, from : Joiners]
  <2>1. new \in [id : 1..asked', invite : 0..made, from : Joiners]
    <3>1. i \in 0..made /\ asked + 1 \in 1..asked'
      <4>1. MaxInvites \in Nat /\ made \in 0..MaxInvites
        BY BoundsAssumption DEF PairInv, TypeOK
      <4>2. i = 0 \/ i \in 1..made
        BY DEF PairInv, TypeOK
      <4>3. i \in 0..made
        BY <4>1, <4>2
      <4>4. asked + 1 \in 1..asked'
        BY <1>1
      <4>5. QED BY <4>3, <4>4
    <3>2. QED BY <3>1
  <2>2. [id : 1..asked, invite : 0..made, from : Joiners] \subseteq [id : 1..asked', invite : 0..made, from : Joiners]
    BY <1>1
  <2>3. Made \subseteq [id : 1..asked, invite : 0..made, from : Joiners]
    BY DEF PairInv, TypeOK
  <2>4. QED BY <1>2, <2>1, <2>2, <2>3
<1>6. \/ joiner' = [joiner EXCEPT ![j] = [pc |-> "polling", id |-> asked + 1, byInvite |-> i # 0]]
      \/ joiner' = joiner
  BY DEF Asks
<1>7. /\ joiner' \in [Joiners -> Attempt(asked')]
      /\ \A k \in Joiners : joiner'[k].pc # "idle" => joiner'[k].id # 0
  <2> DEFINE polling == [pc |-> "polling", id |-> asked + 1, byInvite |-> i # 0]
  <2>1. polling \in Attempt(asked') /\ polling.id # 0
    BY <1>1 DEF Attempt
  <2>2. joiner \in [Joiners -> Attempt(asked')]
    <3>1. Attempt(asked) \subseteq Attempt(asked')
      <4>1. 0..asked \subseteq 0..asked'
        BY <1>1
      <4>2. QED BY <4>1 DEF Attempt
    <3>2. QED BY <3>1, JoinerTypes DEF PairInv
  <2>3. \A k \in Joiners : joiner[k].pc # "idle" => joiner[k].id # 0
    BY JoinerTypes DEF PairInv
  <2>4. joiner' = [joiner EXCEPT ![j] = polling] \/ joiner' = joiner
    BY <1>6
  <2> HIDE DEF polling
  <2>5. \A k \in Joiners : joiner'[k] = polling \/ joiner'[k] = joiner[k]
    BY <2>2, <2>4
  <2>6. QED BY <2>1, <2>2, <2>3, <2>4, <2>5
<1>8. TypeOK'
  <2>1. \A p \in pending' : p.invite \in invites' \cup {0}
    <3>1. new.invite = i
      OBVIOUS
    <3>2. \A p \in pending : p.invite \in invites \cup {0}
      BY DEF PairInv, TypeOK
    <3> HIDE DEF new
    <3>3. QED BY <1>2, <3>1, <3>2
  <2>2. decided' \subseteq [id : 1..asked', status : {"approved", "denied"}]
    <3>1. [id : 1..asked, status : {"approved", "denied"}] \subseteq [id : 1..asked', status : {"approved", "denied"}]
      BY <1>1
    <3>2. QED BY <3>1 DEF PairInv, TypeOK
  <2>3. copy' \in [Joiners -> Store]
    BY JoinerTypes DEF PairInv
  <2>4. result' \in [Joiners -> {"none", "paired", "failed", "cut"}]
    BY DEF Asks, PairInv, TypeOK
  <2>5. QED BY <1>1, <1>5, <1>7, <2>1, <2>2, <2>3, <2>4 DEF PairInv, TypeOK, Attempt
<1>9. Asking'
  <2>1. IdsAreUnique'
    <3>1. new.id = asked + 1
      OBVIOUS
    <3> HIDE DEF new
    <3>2. QED BY <1>2, <1>3, <3>1 DEF PairInv, Asking, IdsAreUnique
  <2>2. DecidedIsGone'
    <3> HIDE DEF new
    <3>1. \A a \in (approvals \ unsaved) \cup denials : a # new
      BY <1>4 DEF Made
    <3>2. QED BY <1>2, <3>1 DEF PairInv, Asking, DecidedIsGone
  <2>3. QED BY <2>1, <2>2 DEF PairInv, Asking, DecisionsAreReal, InviteDecidedOnce
<1>10. Joining'
  <2>1. ASSUME NEW k \in Joiners, joiner'[k].pc # "idle", NEW r \in Made', r.id = joiner'[k].id
        PROVE  r.from = k
    <3>1. CASE k = j /\ joiner' # joiner
      <4>1. r.id = asked + 1
        <5>1. joiner'[j] = [pc |-> "polling", id |-> asked + 1, byInvite |-> i # 0]
          BY <1>6, <3>1, JoinerTypes DEF PairInv
        <5>2. QED BY <2>1, <3>1, <5>1
      <4>2. r = new
        BY <1>2, <1>3, <4>1
      <4>3. QED BY <3>1, <4>2
    <3>2. CASE joiner'[k] = joiner[k]
      <4>1. joiner[k].id \in 0..asked
        BY JoinerTypes DEF PairInv
      <4>2. new.id = asked + 1
        OBVIOUS
      <4>3. r # new
        BY <1>1, <2>1, <3>2, <4>1, <4>2
      <4>4. r \in Made
        BY <1>2, <4>3
      <4>5. QED BY <2>1, <3>2, <4>4 DEF PairInv, Joining, PollsItsOwn
    <3>3. k # j => joiner'[k] = joiner[k]
      BY <1>6, JoinerTypes DEF PairInv
    <3>4. QED BY <3>1, <3>2, <3>3
  <2>2. \A k \in Joiners : joiner'[k].pc \in {"handing over", "writing"} => k \in Approved
    <3>1. SUFFICES ASSUME NEW k \in Joiners, joiner'[k].pc \in {"handing over", "writing"}
                   PROVE  k \in Approved
      OBVIOUS
    <3>2. joiner'[k] = joiner[k] \/ joiner'[k] = [pc |-> "polling", id |-> asked + 1, byInvite |-> i # 0]
      BY <1>6, JoinerTypes DEF PairInv
    <3>3. joiner'[k] = joiner[k]
      <4>1. [pc |-> "polling", id |-> asked + 1, byInvite |-> i # 0].pc = "polling"
        OBVIOUS
      <4>2. "polling" \notin {"handing over", "writing"}
        OBVIOUS
      <4>3. QED BY <3>1, <3>2, <4>1, <4>2
    <3>4. QED BY <3>1, <3>3 DEF PairInv, Joining, HandsOverApproved
  <2>3. \A k \in Joiners : "inviter" \in copy'[k] => k \in Approved
    BY JoinerTypes, TrustedIsApproved DEF PairInv, Trusting, Joining, HandsOverApproved
  <2>4. Approved' = Approved
    BY DEF Approved
  <2>5. QED BY <2>1, <2>2, <2>3, <2>4 DEF Joining, PollsItsOwn, HandsOverApproved
<1>11. Trusting'
  BY TrustingFrame DEF PairInv
<1>12. QED BY <1>8, <1>9, <1>10, <1>11 DEF PairInv

\* What a joiner is told was approved is its own request.
LEMMA ToldTheTruth ==
  ASSUME PairInv, NEW j \in Joiners, joiner[j].pc = "polling", Status(joiner[j].id) = "approved"
  PROVE  j \in Approved
<1> DEFINE id == joiner[j].id
<1>1. PICK d \in decided : d.id = id /\ d.status = "approved"
  <2>1. \E d \in decided : d.id = id /\ Status(id) = (CHOOSE e \in decided : e.id = id).status
    BY DEF Status
  <2>2. QED BY <2>1
<1>2. PICK a \in approvals : a.id = id
  BY <1>1 DEF PairInv, Asking, DecisionsAreReal
<1>3. a.from = j
  BY <1>2 DEF PairInv, Joining, PollsItsOwn, Made
<1>4. QED BY <1>2, <1>3 DEF Approved

\* A joiner goes on, or ends its attempt, and may now trust the inviter, if that
\* approved it; memory and file of its runtime and process change only so.
LEMMA AttemptStep ==
  ASSUME PairInv, NEW j \in Joiners, NEW pc \in {"handing over", "writing"},
         \/ joiner' = joiner
         \/ joiner' = [joiner EXCEPT ![j] = Idle]
         \/ joiner' = [joiner EXCEPT ![j].pc = pc] /\ joiner[j].pc # "idle" /\ j \in Approved,
         UNCHANGED <<inviter, copy, asked, approvals, denials, unsaved, revoked>>,
         moves' \in 0..MaxMoves, asked \in 0..moves',
         runtime' \in [Joiners -> {"up", "stopped", "crashed"}],
         result' \in [Joiners -> {"none", "paired", "failed", "cut"}],
         {known', peers'} \subseteq [Joiners -> Store],
         \A k \in Joiners : "inviter" \in known'[k] \cup peers'[k] => k \in Approved
  PROVE  PairInv'
<1>1. Made' = Made /\ Approved' = Approved
  BY DEF inviter, Made, Approved
<1>0. /\ joiner \in [Joiners -> Attempt(asked)]
      /\ \A k \in Joiners : joiner[k].pc # "idle" => joiner[k].id # 0
  BY JoinerTypes DEF PairInv
<1>2. \A k \in Joiners : \/ joiner'[k] = joiner[k] \/ joiner'[k] = Idle
                         \/ /\ joiner'[k] = [joiner[k] EXCEPT !.pc = pc]
                            /\ joiner[k].pc # "idle" /\ k \in Approved
  BY <1>0
<1>9. /\ joiner' \in [Joiners -> Attempt(asked)]
      /\ \A k \in Joiners :
           /\ joiner'[k].pc # "idle" => joiner'[k].id # 0
           /\ joiner'[k].pc # "idle" => joiner[k].pc # "idle" /\ joiner'[k].id = joiner[k].id
           /\ joiner'[k].pc \in {"handing over", "writing"} => joiner'[k].pc = joiner[k].pc \/ k \in Approved
  <2>1. 0 \in 0..asked
    BY AskedIsNatural DEF PairInv
  <2>2. Idle \in Attempt(asked) /\ Idle.pc = "idle"
    <3>1. Idle.pc = "idle"
      BY DEF Idle
    <3>2. Idle \in Attempt(asked)
      <4>1. "idle" \in {"idle", "polling", "handing over", "writing"} /\ FALSE \in BOOLEAN
        OBVIOUS
      <4>2. QED BY <2>1, <4>1 DEF Idle, Attempt
    <3>3. QED BY <3>1, <3>2
  <2>3. \A k \in Joiners : [joiner[k] EXCEPT !.pc = pc] \in Attempt(asked)
    <3>1. \A k \in Joiners : joiner[k] \in Attempt(asked)
      BY <1>0
    <3>2. ASSUME NEW a \in Attempt(asked) PROVE [a EXCEPT !.pc = pc] \in Attempt(asked)
      BY DEF Attempt
    <3>3. QED BY <3>1, <3>2
  <2>4. \A k \in Joiners : joiner'[k] \in Attempt(asked)
    BY <1>0, <1>2, <2>2, <2>3
  <2>5. joiner' \in [Joiners -> Attempt(asked)]
    BY <1>0, <2>4
  <2>6. ASSUME NEW k \in Joiners
        PROVE  /\ joiner'[k].pc # "idle" => joiner'[k].id # 0
               /\ joiner'[k].pc # "idle" => joiner[k].pc # "idle" /\ joiner'[k].id = joiner[k].id
               /\ joiner'[k].pc \in {"handing over", "writing"} => joiner'[k].pc = joiner[k].pc \/ k \in Approved
    <3>1. joiner[k] \in Attempt(asked)
      BY <1>0
    <3>2. CASE joiner'[k] = [joiner[k] EXCEPT !.pc = pc] /\ joiner[k].pc # "idle" /\ k \in Approved
      <4>1. joiner'[k].id = joiner[k].id
        BY <3>1, <3>2 DEF Attempt
      <4>2. QED BY <1>0, <3>2, <4>1
    <3>3. QED BY <1>0, <1>2, <2>2, <3>2
  <2>7. QED BY <2>5, <2>6
<1>3. TypeOK'
  BY <1>1, <1>9 DEF inviter, PairInv, TypeOK, Attempt
<1>4. Asking'
  BY AskingFrame DEF inviter, PairInv
<1>5. Joining'
  <2>1. PollsItsOwn'
    <3>1. ASSUME NEW k \in Joiners, joiner'[k].pc # "idle", NEW q \in Made', q.id = joiner'[k].id
          PROVE  q.from = k
      <4>1. joiner[k].pc # "idle" /\ joiner'[k].id = joiner[k].id
        BY <1>9, <3>1
      <4>2. q \in Made /\ q.id = joiner[k].id
        BY <1>1, <3>1, <4>1
      <4>3. QED BY <4>1, <4>2 DEF PairInv, Joining, PollsItsOwn
    <3>2. QED BY <3>1 DEF PollsItsOwn
  <2>2. HandsOverApproved'
    BY <1>1, <1>9 DEF PairInv, Joining, HandsOverApproved
  <2>3. QED BY <2>1, <2>2 DEF Joining
<1>6. Trusting'
  <2>1. UNCHANGED <<trust, file, revoked, approvals>>
    BY DEF inviter
  <2>2. RevocationHolds'
    BY <2>1 DEF PairInv, Trusting, RevocationHolds
  <2>3. TrustedAfterApproval'
    <3>1. trust \cup file \subseteq {a.from : a \in approvals}
      BY DEF PairInv, Trusting, TrustedAfterApproval
    <3>2. QED BY <2>1, <3>1 DEF TrustedAfterApproval, Approved
  <2>4. QED BY <2>2, <2>3 DEF Trusting
<1>7. QED BY <1>3, <1>4, <1>5, <1>6 DEF PairInv

\* The runtime of an approved joiner trusts the inviter; nothing else changes there.
LEMMA TrustGrows ==
  ASSUME PairInv, NEW j \in Joiners, j \in Approved, RuntimeTrusts(j)
  PROVE  /\ {known', peers'} \subseteq [Joiners -> Store]
         /\ \A k \in Joiners : "inviter" \in known'[k] \cup peers'[k] => k \in Approved
<1>1. known \in [Joiners -> Store] /\ peers \in [Joiners -> Store]
  BY JoinerTypes DEF PairInv
<1>2. /\ known' = [known EXCEPT ![j] = known[j] \cup {"inviter"}]
      /\ peers' = [peers EXCEPT ![j] = known'[j]]
  BY DEF RuntimeTrusts
<1>3. known[j] \cup {"inviter"} \in Store
  BY <1>1 DEF Store
<1>4. known' \in [Joiners -> Store] /\ known'[j] \in Store
  BY <1>1, <1>2, <1>3
<1>5. peers' \in [Joiners -> Store]
  BY <1>1, <1>2, <1>4
<1>6. \A k \in Joiners : k # j => known'[k] = known[k] /\ peers'[k] = peers[k]
  BY <1>1, <1>2
<1>7. \A k \in Joiners : "inviter" \in known[k] \cup peers[k] => k \in Approved
  BY TrustedIsApproved DEF PairInv, Trusting
<1>8. QED BY <1>4, <1>5, <1>6, <1>7

\* What the stores hold before a step that leaves them alone
LEMMA StoresAsTheyAre ==
  ASSUME PairInv
  PROVE  /\ known \in [Joiners -> Store] /\ peers \in [Joiners -> Store]
         /\ \A k \in Joiners : "inviter" \in known[k] \cup peers[k] => k \in Approved
         /\ runtime \in [Joiners -> {"up", "stopped", "crashed"}]
         /\ result \in [Joiners -> {"none", "paired", "failed", "cut"}]
         /\ moves \in 0..MaxMoves /\ asked \in 0..moves
BY JoinerTypes, TrustedIsApproved DEF PairInv, Trusting, TypeOK

\* An outcome is one of those there are.
LEMMA EndsTypes ==
  ASSUME PairInv, NEW j \in Joiners, NEW how \in {"none", "paired", "failed", "cut"}, Ends(j, how)
  PROVE  /\ joiner' = [joiner EXCEPT ![j] = Idle]
         /\ result' \in [Joiners -> {"none", "paired", "failed", "cut"}]
BY StoresAsTheyAre DEF Ends

LEMMA PollStep ==
  ASSUME PairInv, NEW j \in Joiners, Poll(j)
  PROVE  PairInv'
<1>1. /\ joiner[j].pc = "polling"
      /\ UNCHANGED <<inviter, runtime, copy, asked, approvals, denials, unsaved, revoked, moves>>
  BY DEF Poll
<1>2. CASE /\ Status(joiner[j].id) = "approved" /\ Becomes(j, "handing over")
           /\ UNCHANGED <<known, peers, result>>
  <2>1. j \in Approved
    BY <1>1, <1>2, ToldTheTruth
  <2>2. joiner' = [joiner EXCEPT ![j].pc = "handing over"]
    BY <1>2 DEF Becomes
  <2>3. QED BY <1>1, <1>2, <2>1, <2>2, AttemptStep, StoresAsTheyAre
<1>3. CASE Status(joiner[j].id) = "approved" /\ RuntimeTrusts(j) /\ Ends(j, "paired")
  <2>1. j \in Approved
    BY <1>1, <1>3, ToldTheTruth
  <2>2. QED BY <1>1, <1>3, <2>1, TrustGrows, EndsTypes, AttemptStep, StoresAsTheyAre
<1>4. CASE Ends(j, "failed") /\ UNCHANGED <<known, peers>>
  BY <1>1, <1>4, EndsTypes, AttemptStep, StoresAsTheyAre
<1>5. QED BY <1>2, <1>3, <1>4 DEF Poll

LEMMA GiveUpStep ==
  ASSUME PairInv, NEW j \in Joiners, GiveUp(j)
  PROVE  PairInv'
<1>1. /\ Ends(j, "cut") /\ Move
      /\ UNCHANGED <<inviter, runtime, known, peers, copy, asked, approvals, denials, unsaved, revoked>>
  BY DEF GiveUp
<1>2. moves' \in 0..MaxMoves /\ asked \in 0..moves'
  BY <1>1, Moving DEF PairInv
<1>3. QED BY <1>1, <1>2, EndsTypes, AttemptStep, StoresAsTheyAre

LEMMA HandOverStep ==
  ASSUME PairInv, NEW j \in Joiners, HandOver(j)
  PROVE  PairInv'
<1>1. /\ joiner[j].pc = "handing over" /\ j \in Approved
      /\ UNCHANGED <<inviter, runtime, copy, asked, approvals, denials, unsaved, revoked, moves>>
  BY DEF HandOver, PairInv, Joining, HandsOverApproved
<1>2. CASE RuntimeTrusts(j) /\ Ends(j, "paired")
  BY <1>1, <1>2, TrustGrows, EndsTypes, AttemptStep, StoresAsTheyAre
<1>3. CASE Ends(j, "cut") /\ UNCHANGED <<known, peers>>
  BY <1>1, <1>3, EndsTypes, AttemptStep, StoresAsTheyAre
<1>4. CASE Becomes(j, "writing") /\ UNCHANGED <<known, peers, result>>
  <2>1. joiner' = [joiner EXCEPT ![j].pc = "writing"]
    BY <1>4 DEF Becomes
  <2>2. QED BY <1>1, <1>4, <2>1, AttemptStep, StoresAsTheyAre
<1>5. QED BY <1>2, <1>3, <1>4 DEF HandOver

LEMMA WriteCopyStep ==
  ASSUME PairInv, NEW j \in Joiners, WriteCopy(j)
  PROVE  PairInv'
<1>1. /\ j \in Approved /\ Ends(j, "paired")
      /\ peers' = [peers EXCEPT ![j] = copy[j] \cup {"inviter"}]
      /\ UNCHANGED <<inviter, runtime, known, copy, asked, approvals, denials, unsaved, revoked, moves>>
  BY DEF WriteCopy, PairInv, Joining, HandsOverApproved
<1>2. copy[j] \cup {"inviter"} \in Store
  BY JoinerTypes DEF PairInv, Store
<1>3. peers' \in [Joiners -> Store] /\ \A k \in Joiners : k # j => peers'[k] = peers[k]
  BY <1>1, <1>2, StoresAsTheyAre
<1>4. \A k \in Joiners : "inviter" \in known'[k] \cup peers'[k] => k \in Approved
  BY <1>1, <1>3, StoresAsTheyAre
<1>5. QED BY <1>1, <1>3, <1>4, EndsTypes, AttemptStep, StoresAsTheyAre

\* A runtime that ends keeps its file; one that starts trusts what the file holds.
LEMMA RuntimeStep ==
  ASSUME PairInv, NEW j \in Joiners,
         (\E how \in {"stopped", "crashed"} : End(j, how)) \/ Start(j) \/ RevokeOther(j)
  PROVE  PairInv'
<1>1. /\ Move
      /\ UNCHANGED <<inviter, copy, asked, approvals, denials, unsaved, revoked>>
  BY DEF End, Start, RevokeOther, history
<1>2. moves' \in 0..MaxMoves /\ asked \in 0..moves'
  BY <1>1, Moving DEF PairInv
<1>3. runtime' \in [Joiners -> {"up", "stopped", "crashed"}]
  BY StoresAsTheyAre DEF End, Start, RevokeOther
<1>4. joiner' = joiner \/ joiner' = [joiner EXCEPT ![j] = Idle]
  BY DEF End, Start, RevokeOther, Ends
<1>5. result' \in [Joiners -> {"none", "paired", "failed", "cut"}]
  BY StoresAsTheyAre DEF End, Start, RevokeOther, Ends, history
<1>6. CASE UNCHANGED <<known, peers>>
  BY <1>1, <1>2, <1>3, <1>4, <1>5, <1>6, AttemptStep, StoresAsTheyAre
<1>7. CASE Start(j)
  <2>1. known' = [known EXCEPT ![j] = peers[j]] /\ peers' = peers
    BY <1>7 DEF Start
  <2>2. known' \in [Joiners -> Store]
    BY <2>1, StoresAsTheyAre
  <2>3. \A k \in Joiners : known'[k] \subseteq known[k] \cup peers[k]
    BY <2>1, StoresAsTheyAre
  <2>4. \A k \in Joiners : "inviter" \in known'[k] \cup peers'[k] => k \in Approved
    BY <2>1, <2>3, StoresAsTheyAre
  <2>5. QED BY <1>1, <1>2, <1>3, <1>4, <1>5, <2>1, <2>2, <2>4, AttemptStep, StoresAsTheyAre
<1>8. CASE RevokeOther(j)
  <2>1. /\ known' = [known EXCEPT ![j] = known[j] \ {"other"}]
        /\ peers' = [peers EXCEPT ![j] = known'[j]]
    BY <1>8 DEF RevokeOther
  <2>2. known[j] \ {"other"} \in Store
    BY StoresAsTheyAre DEF Store
  <2>3. known' \in [Joiners -> Store]
    BY <2>1, <2>2, StoresAsTheyAre
  <2>4. peers' \in [Joiners -> Store]
    BY <2>1, <2>3, StoresAsTheyAre
  <2>5. \A k \in Joiners : known'[k] \cup peers'[k] \subseteq known[k] \cup peers[k]
    BY <2>1, StoresAsTheyAre
  <2>6. \A k \in Joiners : "inviter" \in known'[k] \cup peers'[k] => k \in Approved
    BY <2>5, StoresAsTheyAre
  <2>7. QED BY <1>1, <1>2, <1>3, <1>4, <1>5, <2>3, <2>4, <2>6, AttemptStep, StoresAsTheyAre
<1>9. QED BY <1>6, <1>7, <1>8 DEF End

LEMMA AskStep ==
  ASSUME PairInv, NEW j \in Joiners,
         (\E i \in Invites : AskByInvite(j, i)) \/ AskByDiscovery(j)
  PROVE  PairInv'
<1>1. CASE AskByDiscovery(j)
  BY <1>1, AsksStep DEF AskByDiscovery
<1>2. ASSUME NEW i \in Invites, AskByInvite(j, i) PROVE PairInv'
  BY <1>2, AsksStep DEF AskByInvite
<1>3. QED BY <1>1, <1>2

-----------------------------------------------------------------------------
(* The invariant. *)

LEMMA PairInit == Init => PairInv
<1> SUFFICES ASSUME Init PROVE PairInv
  OBVIOUS
<1>1. Made = {} /\ pending = {} /\ decided = {} /\ approvals = {} /\ denials = {} /\ unsaved = {}
  BY DEF Init, Made
<1>2. /\ joiner = [j \in Joiners |-> Idle] /\ Idle.pc = "idle" /\ copy = [j \in Joiners |-> {}]
      /\ known = [j \in Joiners |-> {"other"}] /\ peers = known
  BY DEF Init, Idle
<1>3. joiner \in [Joiners -> Attempt(0)]
  BY <1>2 DEF Idle, Attempt
<1>4. known \in [Joiners -> Store] /\ copy \in [Joiners -> Store]
  BY <1>2 DEF Store
<1>5. TypeOK
  <2>1. made \in 0..MaxInvites /\ moves \in 0..MaxMoves /\ asked \in 0..moves /\ asked = 0
    BY BoundsAssumption DEF Init
  <2>2. \A j \in Joiners : joiner[j].pc = "idle"
    BY <1>2
  <2>3. /\ invites = {} /\ trust = {} /\ file = {} /\ revoked = {}
        /\ runtime \in [Joiners -> {"up", "stopped", "crashed"}]
        /\ result \in [Joiners -> {"none", "paired", "failed", "cut"}]
    BY DEF Init
  <2>4. {known, peers, copy} \subseteq [Joiners -> Store]
    BY <1>2, <1>4
  <2>5. QED BY <1>1, <1>3, <2>1, <2>2, <2>3, <2>4 DEF TypeOK, Attempt
<1>6. Asking
  BY <1>1 DEF Asking, IdsAreUnique, DecisionsAreReal, DecidedIsGone, InviteDecidedOnce
<1>7. Joining
  BY <1>1, <1>2 DEF Joining, PollsItsOwn, HandsOverApproved
<1>8. Trusting
  <2>1. trust = {} /\ file = {} /\ revoked = {}
    BY DEF Init
  <2>2. QED BY <1>2, <2>1 DEF Trusting, TrustedAfterApproval, RevocationHolds
<1>9. QED BY <1>5, <1>6, <1>7, <1>8 DEF PairInv

LEMMA PairStutter ==
  ASSUME PairInv, UNCHANGED vars
  PROVE  PairInv'
BY DEF vars, inviter, joining, history, PairInv, TypeOK, Asking, IdsAreUnique, DecisionsAreReal,
       DecidedIsGone, InviteDecidedOnce, Joining, PollsItsOwn, HandsOverApproved, Trusting,
       TrustedAfterApproval, RevocationHolds, Made, Approved

LEMMA PairStep == PairInv /\ [Next]_vars => PairInv'
<1> SUFFICES ASSUME PairInv, [Next]_vars PROVE PairInv'
  OBVIOUS
<1>1. CASE CreateInvite
  BY <1>1, CreateInviteStep
<1>2. CASE ForgetDecision \/ \E i \in Invites : ExpireInvite(i)
  BY <1>2, ExpiryStep
<1>3. CASE Restart
  BY <1>3, RestartStep
<1>4. ASSUME NEW p \in pending, ExpireRequest(p) \/ Approve(p) \/ ApproveUnsaved(p) \/ Deny(p)
      PROVE  PairInv'
  BY <1>4, ExpiryStep, ApproveStep, ApproveUnsavedStep, DenyStep
<1>5. ASSUME NEW j \in Joiners, Revoke(j) \/ RevokeUnsaved(j)
      PROVE  PairInv'
  BY <1>5, RevokeStep
<1>6. ASSUME NEW j \in Joiners, (\E i \in Invites : AskByInvite(j, i)) \/ AskByDiscovery(j)
      PROVE  PairInv'
  BY <1>6, AskStep
<1>7. ASSUME NEW j \in Joiners, Poll(j) \/ GiveUp(j) \/ HandOver(j) \/ WriteCopy(j)
      PROVE  PairInv'
  BY <1>7, PollStep, GiveUpStep, HandOverStep, WriteCopyStep
<1>8. ASSUME NEW j \in Joiners,
             (\E how \in {"stopped", "crashed"} : End(j, how)) \/ Start(j) \/ RevokeOther(j)
      PROVE  PairInv'
  BY <1>8, RuntimeStep
<1>9. CASE UNCHANGED vars
  BY <1>9, PairStutter
<1>10. QED BY <1>1, <1>2, <1>3, <1>4, <1>5, <1>6, <1>7, <1>8, <1>9 DEF Next

\* The invariant of pairing: what was decided is gone, a joiner polls for a request
\* of its own, and what is trusted at either end was approved.
THEOREM PairInvariant == Spec => []PairInv
<1>1. Init => PairInv
  BY PairInit
<1>2. PairInv /\ [Next]_vars => PairInv'
  BY PairStep
<1>3. QED BY <1>1, <1>2, PTL DEF Spec

\* Types; an attempt under way belongs to a request that was made.
THEOREM PairTypeCorrect == Spec => []TypeOK
<1>1. PairInv => TypeOK
  BY DEF PairInv
<1>2. QED BY <1>1, PairInvariant, PTL

\* Neither end trusts the other before a person at the inviter approved
\* (PeerPairingManager.approve), whatever is lost, restarted or written stale.
THEOREM PairTrustedAfterApproval == Spec => []TrustedAfterApproval
<1>1. PairInv => TrustedAfterApproval
  BY DEF PairInv, Trusting
<1>2. QED BY <1>1, PairInvariant, PTL

\* An invite is decided once (PeerPairingManager.approve and deny burn it), but for
\* approvals of which the trust file could not be written.
THEOREM PairInviteDecidedOnce == Spec => []InviteDecidedOnce
<1>1. PairInv => InviteDecidedOnce
  BY DEF PairInv, Asking
<1>2. QED BY <1>1, PairInvariant, PTL

\* A confirmed revocation (TrustStore.revoke) holds until a new approval.
THEOREM PairRevocationHolds == Spec => []RevocationHolds
<1>1. PairInv => RevocationHolds
  BY DEF PairInv, Trusting
<1>2. QED BY <1>1, PairInvariant, PTL
=============================================================================
