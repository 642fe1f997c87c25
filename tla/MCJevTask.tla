------------------------------ MODULE MCJevTask ------------------------------
(* An instance of JevTask for TLC: every engine without a limit, and each  *)
(* limit under one of them.                                                *)
EXTENDS JevTask

OnlyOf(on) == [l \in Limits |-> IF l \in on THEN 1 ELSE None]

MCEngines ==
  {<<s, OnlyOf({})>> : s \in Strategies} \cup
  {<<"hybrid", OnlyOf({"maxTurns"})>>, <<"hybrid", OnlyOf({"maxCostUsd"})>>,
   <<"first", OnlyOf({"maxToolCalls"})>>, <<"auto", OnlyOf({"maxDurationMs"})>>}

MCStarts == {[limit |-> e[2], used |-> [l \in Limits |-> 0]] : e \in MCEngines}

MCGrant == [l \in Limits |-> 1]

(* What is used up of a limit that is off can no longer matter.            *)
MCView ==
  <<task, now, clock, limit, reason, active,
    [l \in Limits |-> IF limit[l] = None THEN 0 ELSE used[l]]>>
=============================================================================
