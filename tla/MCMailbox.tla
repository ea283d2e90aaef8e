------------------------------ MODULE MCMailbox ------------------------------
(***************************************************************************)
(* Mailbox on two names: a keyed Claude session, and MCP clients without a *)
(* key that take the other name over from each other.                      *)
(* The database was in use before: an agent that is gone sent one message  *)
(* to its role, and that message may have been cleaned up since.           *)
(***************************************************************************)
EXTENDS Mailbox

MCNames == {"a", "b"}

MCCandidates == [n \in MCNames |-> <<>>]

Ask(name, kind, key, role) ==
  [name |-> name, kind |-> kind, key |-> key, mode |-> "prefer", role |-> role]

MCRequests ==
  { Ask("a", "claude-code", "c1", "dev"),
    Ask("b", "other", None, "lead") }

MCInit ==
  /\ agents = [n \in Names |-> Absent]
  /\ nextId = 2
  /\ mail = <<[to |-> {1}, role |-> "dev"]>>
  /\ aged \in 0 .. 1 /\ purged = aged
  /\ cursor = [a \in AgentIds |-> 0]
  /\ born = [a \in AgentIds |-> 0]
  /\ got = [a \in AgentIds |-> {}]
  /\ again = {}

MCSpec == MCInit /\ [][Next]_vars
=============================================================================
