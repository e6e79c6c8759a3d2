------------------------- MODULE MC_LegacyCallback -------------------------
(* Model values for checking LegacyCallback with TLC.                      *)
EXTENDS LegacyCallback

CONSTANTS r1, r2

MCCbIds == {r1, r2}
=============================================================================
