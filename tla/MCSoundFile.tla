---------------------------- MODULE MCSoundFile ----------------------------
(***************************************************************************)
(* Instances of SoundFile for TLC.                                         *)
(***************************************************************************)
EXTENDS SoundFile

MCPrio == [t \in Thread |-> 1]

=============================================================================
