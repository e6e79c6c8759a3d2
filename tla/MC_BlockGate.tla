--------------------------- MODULE MC_BlockGate ---------------------------
(* Model values and maps for checking BlockGate with TLC.                  *)
EXTENDS BlockGate

CONSTANTS m1, m2

\* two messages for the same block height, one for the next
MCMsgs == {m1, m2}
MCHeightOf == (m1 :> 1) @@ (m2 :> 2)
=============================================================================
