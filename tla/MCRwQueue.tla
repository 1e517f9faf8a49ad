------------------------------ MODULE MCRwQueue ------------------------------
(***************************************************************************)
(* Instances of RwQueue for TLC.                                           *)
(***************************************************************************)
EXTENDS RwQueue, TLC

CONSTANTS s1, s2

\* MaxSend: the sends of each sender.
Sends2  == [s \in Senders |-> 2]
Sends3  == [s \in Senders |-> 3]
Sends31 == (s1 :> 3) @@ (s2 :> 1)

\* Receivers that exist from the start are interchangeable.
ReceiverSymmetry == Permutations(Receivers)

\* The state without the locals that are out of scope; each is assigned before
\* its next use.
LiveState ==
  <<pc, vecVars, ticketVars, len, resizeVars, countVars, known, histVars,
    [h \in Handles |->
       CASE pc[h] \in {"lock", "check", "sleep", "wait", "put", "notify"} -> idx[h]
         [] pc[h] \in {"enter", "scan"} -> span[h]
         [] OTHER -> 0]>>
=============================================================================
