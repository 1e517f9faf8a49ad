---------------------------- MODULE MCListChannel ----------------------------
(***************************************************************************)
(* Instances of ListChannel for TLC.                                       *)
(***************************************************************************)
EXTENDS ListChannel, TLC

CONSTANTS s1, s2

\* MaxSend: the sends of each sender.
Sends11 == (s1 :> 1) @@ (s2 :> 1)
Sends21 == (s1 :> 2) @@ (s2 :> 1)

\* The state without the locals that are out of scope; each is assigned before
\* its next use.
Inside(h) ==
  CASE pc[h] \in {"access", "unlink", "empty", "release"} -> <<front[h], succ[h]>>
    [] pc[h] \in {"declare", "succ", "chain", "take"} -> <<front[h]>>
    [] h \in Receivers /\ pc[h] = "open" -> <<front[h]>>
    [] pc[h] \in {"join", "node", "tail", "link", "leave"} -> <<last[h]>>
    [] OTHER -> << >>
LiveState ==
  <<pc, listVars, len, countVars, histVars, [h \in Handles |-> Inside(h)]>>
=============================================================================
