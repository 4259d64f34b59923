------------------------------ MODULE MCPhoto ------------------------------
(***************************************************************************)
(* Instances of Photo for TLC, with the sizes of the code.                 *)
(***************************************************************************)
EXTENDS Photo

MCPrio == [t \in Thread |-> IF t = PhotoThd THEN 2 ELSE 1]

=============================================================================
