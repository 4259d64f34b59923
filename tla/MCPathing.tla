-------------------------------- MODULE MCPathing --------------------------------
EXTENDS Pathing
MCPathMoves == {<<860, 40>>, <<-30, 2000>>}
MCSlice == {7, 13}
=============================================================================
