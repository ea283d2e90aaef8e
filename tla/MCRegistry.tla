----------------------------- MODULE MCRegistry -----------------------------
(***************************************************************************)
(* Registry on a small table: two Claude sessions and one other session    *)
(* that all want the name "a", an MCP client that registers without a key, *)
(* one numbered candidate and one random-suffix name.                      *)
(***************************************************************************)
EXTENDS Registry

MCNames == {"a", "a-2", "a-r", "b"}

MCCandidates == [n \in MCNames |-> IF n = "a" THEN <<"a-2">> ELSE <<>>]

MCRandomNames == {"a-r"}

Ask(name, kind, key, mode) ==
  [name |-> name, kind |-> kind, key |-> key, mode |-> mode, role |-> "default"]

MCRequests ==
  { Ask("a", "claude-code", "c1", "prefer"),  \* SessionStart hook
    Ask("b", "claude-code", "c1", "exact"),   \* the same session claims a name
    Ask("a", "claude-code", "c2", "prefer"),
    Ask("a", "other", "o1", "prefer"),        \* Pi / OpenCode session
    Ask("b", "other", "o1", "exact"),         \* ... claims a name
    Ask("a", "other", None, "prefer"),        \* MCP register_agent
    Ask("b", "claude-code", None, "prefer"),
    Ask("b", "other", None, "exact") }
=============================================================================
