----------------------------- MODULE MCApprovals -----------------------------
(* An instance of Approvals for TLC: c1 is a gated command, s1 and s2 are  *)
(* sockets of one host, a1 and a2 navigate to private addresses on it.     *)
EXTENDS Approvals, TLC

CONSTANTS push, private, purchase, domain, c1, s1, s2, a1, a2, h1

MCRuleOf == [a \in Askers |-> CASE a \in Commands -> push [] a \in Actions -> private [] OTHER -> NoRule]

MCHostOf == [a \in Askers |-> IF a \in Commands THEN NoHost ELSE h1]

Symmetry == Permutations(Sockets) \cup Permutations(Actions)
=============================================================================
