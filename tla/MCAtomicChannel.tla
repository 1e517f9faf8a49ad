--------------------------- MODULE MCAtomicChannel ---------------------------
(***************************************************************************)
(* Instances of AtomicChannel for TLC.                                     *)
(***************************************************************************)
EXTENDS AtomicChannel, MCAtomicQueue

\* A single writer with a reader and its clone, or two readers with a writer and its
\* clone.
InitChannelCast(c) ==
  /\ InitCast(c)
  /\ receivers = nReaders /\ senders = nWriters
  /\ call = [h \in Handles |-> "out"]
AloneOrHeirs ==
  (InitChannelCast(Alone) \/ InitChannelCast(Heirs)) /\ [][ChannelNext]_allVars

\* What a later step reads (see LiveState).
LiveChannel == <<LiveState, channelVars>>
=============================================================================
