--------------------------- MODULE MCAtomicQueue ---------------------------
(***************************************************************************)
(* Instances of AtomicQueue for TLC.  The handles are model values.        *)
(***************************************************************************)
EXTENDS AtomicQueue, TLC

CONSTANTS r1, r2, w1, w2, w3

\* Pushes per writer.
Push4 == [w \in Writers |-> 4]
Push31 == (w1 :> 3) @@ (w2 :> 1)
Push620 == (w1 :> 6) @@ (w2 :> 2) @@ (w3 :> 0)

\* Who takes part: handles there from the start, handles a clone may make, and the
\* rest, which are gone; and how many values w1 has sent before that were received, and
\* how many that fill the first slots.
Alone == [first |-> {r1, w1}, spare |-> {r2}, taken |-> 0, left |-> 0]
Rivals == [first |-> {r1, w1, w2}, spare |-> {}, taken |-> Cap, left |-> Cap]
Heirs == [first |-> {r1, r2, w2}, spare |-> {w3}, taken |-> 0, left |-> 0]
InitCast(c) ==
  /\ InitQueue
  /\ buf = [i \in 0..(Cap - 1) |-> IF i < c.left THEN <<w1, c.taken + i + 1>> ELSE NoVal]
  /\ start = c.taken /\ end = c.taken + c.left /\ len = c.left
  /\ sent = [w \in Writers |-> IF w = w1 THEN c.taken + c.left ELSE 0]
  /\ received = {<<w1, n>> : n \in 1..c.taken}
  /\ readers = c.first \cap Readers /\ writers = c.first \cap Writers
  /\ nReaders = Cardinality(readers) /\ nWriters = Cardinality(writers)
  /\ pc = [h \in Handles |-> IF h \in c.first THEN "idle"
                              ELSE IF h \in c.spare THEN "none" ELSE "gone"]

\* A single writer with a reader and its clone, or two writers with a reader.
AloneOrRivals == (InitCast(Alone) \/ InitCast(Rivals)) /\ [][Next]_vars /\ Fairness

\* The state without what no step will read again: locals that are out of scope
\* (each is assigned before its next use), the flag of a handle that does not
\* exist, and len.
Inside(w) ==
  CASE pc[w] = "wwake" -> <<span[w]>>
    [] pc[w] = "scan" -> <<cur[w], ex[w]>>
    [] pc[w] \in RequestPCs -> <<old[w]>>
    [] OTHER -> << >>
LiveState ==
  << buf, start, end, status, mapVars, pc, histVars, todo, saved,
     [h \in Handles |-> IF pc[h] \in {"none", "gone"} THEN "Idle" ELSE action[h]],
     [h \in Handles |-> IF pc[h] \in SlotPCs \cup {"put", "wcount", "wwake"}
                        THEN <<idx[h], seen[h]>>
                        ELSE IF pc[h] = "ticket" THEN <<seen[h]>> ELSE <<>>],
     [w \in Writers |-> Inside(w)] >>
=============================================================================
