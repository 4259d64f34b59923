--------------------------- MODULE MCAudioCapture ---------------------------
(***************************************************************************)
(* Small windows, of which the buffers are no divisor, as in the code.     *)
(***************************************************************************)
EXTENDS AudioCapture

=============================================================================
