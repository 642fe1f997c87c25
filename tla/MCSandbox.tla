------------------------------ MODULE MCSandbox ------------------------------
EXTENDS Sandbox, TLC

(* Sessions and calls differ in their names only.                          *)
Symmetry == Permutations(Sessions) \cup Permutations(Calls)

(* A handler that is over is read no more, nor how the proxy answered it;  *)
(* an answer counts for who waits for it.                                  *)
Handler(i) == IF call[i].at = "done" THEN "done" ELSE call[i]
Answer(i) == IF call[i].at = "egress" THEN outcome[i] ELSE "none"
InView == <<chain, served, [i \in Calls |-> <<Handler(i), Answer(i)>>], manager,
            podman, run, losses, calm>>
=============================================================================
