------------------------------ MODULE Pairing ------------------------------
(***************************************************************************)
(* Pairing of two instances (lib/peer-pairing.mjs, lib/peer-runtime.mjs).  *)
(*                                                                         *)
(* The inviter's runtime keeps invites, pending requests and decisions in  *)
(* memory and its trust store in a file.  A joiner asks, by invite code    *)
(* or by discovery, then polls until a person at the inviter has decided.  *)
(* By invite the joiner is a command line process with a trust store of    *)
(* its own, loaded when it began; it hands the result to the joiner's      *)
(* runtime if that runs.  By discovery the joiner is the runtime itself.   *)
(*                                                                         *)
(* Signatures, proofs, nonces and rate limits are left out: requests here  *)
(* are those of honest joiners, each sent once.  Lifetimes are expiries.   *)
(***************************************************************************)
EXTENDS Naturals, FiniteSets

CONSTANTS
  Joiners,
  MaxInvites,  \* bound: invites made
  MaxMoves     \* bound: steps of persons, timers and faults

ASSUME BoundsAssumption == {MaxInvites, MaxMoves} \subseteq Nat

VARIABLES
  \* inviter
  invites,    \* active invites
  made,       \* invites made so far
  pending,    \* pending requests: [id, invite, from]; invite 0: discovery
  decided,    \* decisions in memory: [id, status]
  trust, file,\* trusted joiners, in memory and in the trust file
  \* joiners
  joiner,     \* joiner -> [pc, id, byInvite]
  runtime,    \* joiner -> is its runtime "up", "stopped" or "crashed"?
  known,      \* joiner -> peers its runtime trusts (inviter, another)
  peers,      \* joiner -> peers in its trust file
  copy,       \* joiner -> peers its command line process has loaded
  \* history
  asked,      \* requests so far
  approvals,  \* requests approved: [id, invite, from]
  denials,    \* requests denied
  unsaved,    \* requests approved of which the trust file could not be written
  revoked,    \* joiners revoked by the inviter since their last approval
  result,     \* joiner -> outcome of its last attempt: "none", "paired", "failed" or "cut"
  moves

inviter == <<invites, made, pending, decided, trust, file>>
joining == <<joiner, runtime, known, peers, copy>>
history == <<asked, approvals, denials, unsaved, revoked, result>>
vars == <<inviter, joining, history, moves>>

Requests == 1 .. MaxMoves
Invites == 1 .. MaxInvites
Idle == [pc |-> "idle", id |-> 0, byInvite |-> FALSE]
Move == moves < MaxMoves /\ moves' = moves + 1

-----------------------------------------------------------------------------
(* The inviter. *)

CreateInvite ==
  /\ Move /\ made < MaxInvites
  /\ made' = made + 1 /\ invites' = invites \cup {made + 1}
  /\ UNCHANGED <<pending, decided, trust, file, joining, history>>

\* Requests of an invite go with it (prune).
ExpireInvite(i) ==
  /\ Move /\ i \in invites
  /\ invites' = invites \ {i} /\ pending' = {p \in pending : p.invite # i}
  /\ UNCHANGED <<made, decided, trust, file, joining, history>>

\* 60 seconds for a request by discovery
ExpireRequest(p) ==
  /\ Move /\ p.invite = 0 /\ pending' = pending \ {p}
  /\ UNCHANGED <<invites, made, decided, trust, file, joining, history>>

ForgetDecision ==
  /\ Move /\ \E d \in decided : decided' = decided \ {d}
  /\ UNCHANGED <<invites, made, pending, trust, file, joining, history>>

\* mutant: the invite stays, only the request goes
ConsumedRequest(p) == invites' = invites /\ pending' = pending \ {p}

\* The invite is used up, and with it all its requests.
Consumed(p) ==
  /\ invites' = invites \ {p.invite}
  /\ pending' = IF p.invite = 0 THEN pending \ {p}
                                ELSE {q \in pending : q.invite # p.invite}

Decide(p, status) == decided' = decided \cup {[id |-> p.id, status |-> status]}

Approve(p) ==
  /\ Move /\ Consumed(p) /\ Decide(p, "approved")
  /\ trust' = trust \cup {p.from} /\ file' = trust'
  /\ approvals' = approvals \cup {p} /\ revoked' = revoked \ {p.from}
  /\ UNCHANGED <<made, joining, asked, denials, unsaved, result>>

\* The trust file cannot be written: trusted in memory, and still pending.
ApproveUnsaved(p) ==
  /\ Move /\ trust' = trust \cup {p.from}
  /\ unsaved' = unsaved \cup {p}
  /\ approvals' = approvals \cup {p} /\ revoked' = revoked \ {p.from}
  /\ UNCHANGED <<invites, made, pending, decided, file, joining, asked, denials, result>>

Deny(p) ==
  /\ Move /\ Consumed(p) /\ Decide(p, "denied") /\ denials' = denials \cup {p}
  /\ UNCHANGED <<made, trust, file, joining, asked, approvals, unsaved, revoked, result>>

\* mutant: forgotten in memory only
RevokedFromMemory(j) == trust' = trust \ {j} /\ UNCHANGED file

RevokedFrom(j) == trust' = trust \ {j} /\ file' = trust'

Revoke(j) ==
  /\ Move /\ j \in trust /\ RevokedFrom(j)
  /\ revoked' = revoked \cup {j}
  /\ UNCHANGED <<invites, made, pending, decided, joining, asked, approvals, denials, unsaved, result>>

\* The person is shown an error; the file still has the joiner.
RevokeUnsaved(j) ==
  /\ Move /\ j \in trust /\ trust' = trust \ {j}
  /\ UNCHANGED <<invites, made, pending, decided, file, joining, history>>

Restart ==
  /\ Move /\ invites' = {} /\ pending' = {} /\ decided' = {} /\ trust' = file
  /\ UNCHANGED <<made, file, joining, history>>

-----------------------------------------------------------------------------
(* The joiners. *)

Becomes(j, pc) == joiner' = [joiner EXCEPT ![j].pc = pc]
Ends(j, how) == joiner' = [joiner EXCEPT ![j] = Idle] /\ result' = [result EXCEPT ![j] = how]

\* A request is pending; its answer may be lost, and the joiner gives up.
Asks(j, i) ==
  LET id == asked + 1 IN
  /\ joiner[j] = Idle /\ j \notin trust /\ asked' = id
  /\ pending' = pending \cup {[id |-> id, invite |-> i, from |-> j]}
  /\ \/ /\ joiner' = [joiner EXCEPT ![j] = [pc |-> "polling", id |-> id, byInvite |-> i # 0]]
        /\ result' = [result EXCEPT ![j] = "none"]
     \/ joiner' = joiner /\ result' = [result EXCEPT ![j] = "cut"]

AskByInvite(j, i) ==
  /\ Move /\ i \in invites /\ Asks(j, i)
  /\ copy' = [copy EXCEPT ![j] = peers[j]]
  /\ UNCHANGED <<invites, made, decided, trust, file, runtime, known, peers>>
  /\ UNCHANGED <<approvals, denials, unsaved, revoked>>

AskByDiscovery(j) ==
  /\ Move /\ runtime[j] = "up" /\ Asks(j, 0)
  /\ UNCHANGED <<invites, made, decided, trust, file, runtime, known, peers, copy>>
  /\ UNCHANGED <<approvals, denials, unsaved, revoked>>

\* mutant: whatever was decided, the joiner is told it was approved
StatusAnyDecision(id) ==
  IF \E p \in pending : p.id = id THEN "pending"
  ELSE IF \E d \in decided : d.id = id THEN "approved" ELSE "not_found"

\* mutant: a request that is not pending any more is not found
StatusPendingOnly(id) == IF \E p \in pending : p.id = id THEN "pending" ELSE "not_found"

Status(id) ==
  IF \E p \in pending : p.id = id THEN "pending"
  ELSE IF \E d \in decided : d.id = id THEN (CHOOSE d \in decided : d.id = id).status
  ELSE "not_found"

\* TrustStore.trust of the joiner's runtime: memory and file
RuntimeTrusts(j) ==
  /\ known' = [known EXCEPT ![j] = @ \cup {"inviter"}]
  /\ peers' = [peers EXCEPT ![j] = known'[j]]

\* One turn of the polling loop that is not answered "pending".
Poll(j) ==
  LET status == Status(joiner[j].id) IN
  /\ joiner[j].pc = "polling" /\ status # "pending"
  /\ \/ /\ status = "approved" /\ joiner[j].byInvite
        /\ Becomes(j, "handing over")
        /\ UNCHANGED <<known, peers, result>>
     \/ /\ status = "approved" /\ ~joiner[j].byInvite
        /\ RuntimeTrusts(j) /\ Ends(j, "paired")
     \/ /\ status # "approved" /\ Ends(j, "failed")
        /\ UNCHANGED <<known, peers>>
  /\ UNCHANGED <<inviter, runtime, copy, asked, approvals, denials, unsaved, revoked, moves>>

\* One failed poll ends the attempt, as does its deadline.
GiveUp(j) ==
  /\ Move /\ joiner[j].pc = "polling" /\ Ends(j, "cut")
  /\ UNCHANGED <<inviter, runtime, known, peers, copy, asked, approvals, denials, unsaved, revoked>>

\* POST /trust to the joiner's own runtime.  One that was stopped has removed its
\* control-port file, which is an error; one that crashed refuses the connection.
HandOver(j) ==
  /\ joiner[j].pc = "handing over"
  /\ \/ runtime[j] = "up" /\ RuntimeTrusts(j) /\ Ends(j, "paired")
     \/ runtime[j] = "stopped" /\ Ends(j, "cut") /\ UNCHANGED <<known, peers>>
     \/ runtime[j] = "crashed" /\ Becomes(j, "writing") /\ UNCHANGED <<known, peers, result>>
  /\ UNCHANGED <<inviter, runtime, copy, asked, approvals, denials, unsaved, revoked, moves>>

\* trustStore.trust of the command line process: its copy of the store is written.
WriteCopy(j) ==
  /\ joiner[j].pc = "writing"
  /\ peers' = [peers EXCEPT ![j] = copy[j] \cup {"inviter"}]
  /\ Ends(j, "paired")
  /\ UNCHANGED <<inviter, runtime, known, copy, asked, approvals, denials, unsaved, revoked, moves>>

\* A runtime that ends takes its own attempt with it.
End(j, how) ==
  /\ Move /\ runtime[j] = "up" /\ runtime' = [runtime EXCEPT ![j] = how]
  /\ IF joiner[j].pc = "polling" /\ ~joiner[j].byInvite THEN Ends(j, "cut")
                                                        ELSE UNCHANGED <<joiner, result>>
  /\ UNCHANGED <<inviter, known, peers, copy, asked, approvals, denials, unsaved, revoked>>

Start(j) ==
  /\ Move /\ runtime[j] # "up" /\ runtime' = [runtime EXCEPT ![j] = "up"]
  /\ known' = [known EXCEPT ![j] = peers[j]]
  /\ UNCHANGED <<inviter, joiner, peers, copy, history>>

\* The joiner revokes the other peer it is paired with.
RevokeOther(j) ==
  /\ Move /\ runtime[j] = "up" /\ "other" \in known[j]
  /\ known' = [known EXCEPT ![j] = @ \ {"other"}] /\ peers' = [peers EXCEPT ![j] = known'[j]]
  /\ UNCHANGED <<inviter, joiner, runtime, copy, asked, approvals, denials, unsaved, revoked, result>>

-----------------------------------------------------------------------------
Init ==
  /\ invites = {} /\ made = 0 /\ pending = {} /\ decided = {} /\ trust = {} /\ file = {}
  /\ joiner = [j \in Joiners |-> Idle] /\ runtime = [j \in Joiners |-> "up"]
  /\ known = [j \in Joiners |-> {"other"}] /\ peers = known /\ copy = [j \in Joiners |-> {}]
  /\ asked = 0 /\ approvals = {} /\ denials = {} /\ unsaved = {} /\ revoked = {}
  /\ result = [j \in Joiners |-> "none"] /\ moves = 0

Next ==
  \/ CreateInvite \/ ForgetDecision \/ Restart
  \/ \E i \in Invites : ExpireInvite(i)
  \/ \E p \in pending : ExpireRequest(p) \/ Approve(p) \/ ApproveUnsaved(p) \/ Deny(p)
  \/ \E j \in Joiners :
       \/ Revoke(j) \/ RevokeUnsaved(j)
       \/ \E i \in Invites : AskByInvite(j, i)
       \/ AskByDiscovery(j) \/ Poll(j) \/ GiveUp(j) \/ HandOver(j) \/ WriteCopy(j)
       \/ \E how \in {"stopped", "crashed"} : End(j, how)
       \/ Start(j) \/ RevokeOther(j)

\* The joiner's process runs; persons need not decide.
Spec ==
  /\ Init /\ [][Next]_vars
  /\ \A j \in Joiners : WF_vars(Poll(j)) /\ WF_vars(HandOver(j)) /\ WF_vars(WriteCopy(j))

-----------------------------------------------------------------------------
(* Properties. *)

Made == pending \cup approvals \cup denials
Store == SUBSET {"inviter", "other"}

\* Types; an attempt under way belongs to a request that was made.
TypeOK ==
  /\ made \in 0..MaxInvites /\ moves \in 0..MaxMoves /\ asked \in 0..moves
  /\ invites \subseteq 1..made
  /\ Made \subseteq [id : 1..asked, invite : 0..made, from : Joiners]
  /\ \A p \in pending : p.invite \in invites \cup {0}
  /\ decided \subseteq [id : 1..asked, status : {"approved", "denied"}]
  /\ trust \cup file \cup revoked \subseteq Joiners
  /\ joiner \in [Joiners -> [pc : {"idle", "polling", "handing over", "writing"},
                            id : 0..asked, byInvite : BOOLEAN]]
  /\ \A j \in Joiners : joiner[j].pc # "idle" => joiner[j].id # 0
  /\ runtime \in [Joiners -> {"up", "stopped", "crashed"}]
  /\ {known, peers, copy} \subseteq [Joiners -> Store]
  /\ result \in [Joiners -> {"none", "paired", "failed", "cut"}]

\* "Receiving a valid proof creates a pending candidate only; trust is persisted
\* only after explicit approve()" (PeerPairingManager), at both ends.
TrustedAfterApproval ==
  /\ trust \cup file \subseteq {a.from : a \in approvals}
  /\ \A j \in Joiners : "inviter" \in known[j] \cup peers[j] => \E a \in approvals : a.from = j

\* An invite is decided once: one joiner at most is trusted for it, none after a
\* denial ("A denied invite is burned"), however many asked with its code.  Not
\* counted is an approval of which the trust file could not be written.
InviteDecidedOnce ==
  LET approved == approvals \ unsaved IN
  /\ approved \cap denials = {}
  /\ \A a, d \in approved \cup denials : a.invite = d.invite /\ a.invite # 0 => a = d

\* A joiner whose revocation was confirmed stays out, across restarts and write
\* errors, until a person approves it again.
RevocationHolds == revoked \cap (trust \cup file) = {}

\* A joiner that still polls when its request is approved is paired in the end,
\* unless the attempt is cut off, the inviter restarts, or the decision is forgotten.
PairingCompletes ==
  \A j \in Joiners :
    LET decision == {d \in decided : d.id = joiner[j].id} IN
    (joiner[j].pc = "polling" /\ \E d \in decision : d.status = "approved")
      ~> (result[j] \in {"paired", "cut"} \/ (joiner[j] # Idle /\ decision = {}))
=============================================================================
