----------------------------- MODULE MCPlugins -----------------------------
(***************************************************************************)
(* Plugins with two processes, of v1 or v2 beside v2 or Pi: the first may  *)
(* have two sessions and the second one of them too; one name is claimed   *)
(* or pinned, and has one numbered alternative.                            *)
(***************************************************************************)
EXTENDS Plugins

MCNames == {"s1", "s2", "w", "w-2", "x"}
MCCandidates == [n \in MCNames |-> IF n = "w" THEN <<"w-2">> ELSE <<>>]
MCBase == [s \in {"k1", "k2"} |-> IF s = "k1" THEN "s1" ELSE "s2"]
MCPlaceholder == [p \in {"p1", "p2"} |-> "x"]
MCOpens == [p \in {"p1", "p2"} |-> IF p = "p1" THEN {"k1", "k2"} ELSE {"k2"}]

MCRequests ==
  [name : MCNames, kind : {"other"}, key : {"k1", "k2", None}, mode : {"prefer", "exact"}, role : {"worker"}]

Pair(h1, n1, h2, n2) ==
  [p \in {"p1", "p2"} |-> IF p = "p1" THEN [harness |-> h1, pinned |-> n1]
                                     ELSE [harness |-> h2, pinned |-> n2]]
MCSetups ==
  { Pair("v1", FALSE, "pi", FALSE), Pair("v1", TRUE, "pi", TRUE),
    Pair("v2", FALSE, "pi", FALSE), Pair("v2", TRUE, "v2", FALSE) }
=============================================================================
